---------------------------- MODULE Spec2Model ----------------------------
(***************************************************************************)
(* The resilient translation pipeline of cjk-token-reducer:                *)
(*   - CircuitBreaker and RateLimiter        (src/src/resilience.rs)        *)
(*   - the retry orchestrator and the ordered dispatcher                    *)
(*                                           (src/src/translator.rs)        *)
(*                                                                         *)
(* Three specifications share the state:                                   *)
(*   Spec          independent calls of google_translate_with_retry_config, *)
(*                 interleaved at their await points (the breaker and the   *)
(*                 limiter methods contain no await and run atomically on  *)
(*                 one task);                                              *)
(*   SpecDispatch  one translate_chunks dispatch: buffered(5) over the same *)
(*                 calls, one per chunk;                                    *)
(*   SpecThreads   the CircuitBreaker methods called from several threads,  *)
(*                 one atomic memory operation per step.                    *)
(*                                                                         *)
(* The clock `now` is in milliseconds; the breaker reads it in seconds.     *)
(***************************************************************************)
EXTENDS Integers, Sequences, FiniteSets, TLC

VARIABLES
    now,        \* wall clock, ms since the epoch
    cb,         \* the CircuitBreaker (CIRCUIT_BREAKER)
    rl,         \* the RateLimiter (RATE_LIMITER)
    pc,         \* per call: where google_translate_with_retry_config is suspended
    attempt,    \* per call: the loop variable `attempt`
    wake_at,    \* per call: the deadline of the sleep it is suspended in
    text,       \* per call: the argument `text`
    result,     \* per call: the returned Result<String>
    last_error, \* per call: the local `last_error`
    chunks,     \* translate_chunks: the argument `chunks`
    next_start, \* translate_chunks: index of the next chunk the stream hands out
    results,    \* translate_chunks: the Vec<Result<String>> collected so far
    dstate,     \* translate_chunks: "idle" | "running" | "returned"
    ret,        \* translate_chunks: its return value
    tpc,        \* per thread: the atomic operation it executes next
    t_opened_at,\* per thread: the local `opened_at`
    t_now,      \* per thread: the local `now`
    t_failures, \* per thread: the local `failures`
    fail_run,   \* history: record_failure() calls since the last record_success()
    budget,     \* environment: error replies the backend may still give
    closings,   \* history: how often opened_at went from non-zero to 0
    last_trial, \* history: the clock reading of the latest trial grant since the
                \* breaker was last closed (0: none)
    closed_from,\* history: the state in which the latest closing found the breaker
    overtook,   \* history: a chunk's call finished before that of an earlier chunk
    invocations,\* history, per call: how often it has called google_translate
    last_reply, \* history, per call: what google_translate last returned to it
    t_min_delay,    \* per thread: the local `min_delay` of wait_if_needed
    t_current_next, \* per thread: the local `current_next` of wait_if_needed
    t_current,      \* per thread: the local `current` of RateLimiter::record_success
    t_new_delay,    \* per thread: the local `new_delay` of record_rate_limit
    t_retry_after,  \* per thread: the argument `retry_after_secs`
    t_wake,         \* per thread: the deadline of the sleep of wait_if_needed
    panicked,   \* a `secs * 1000` overflowed in a build that checks overflow
    reserved,   \* history: the reservations wait_if_needed has made, in order
    last_op,    \* history: the latest limiter method called, with its argument
    signal_run, \* history: the delay `base` left by the latest write that was
                \* not a record_rate_limit(None), the number `k` of
                \* record_rate_limit(None) calls completed since, and
                \* whether all of these k calls began after that write
                \* (`pure`); the delay `stored` by the latest
                \* record_rate_limit and the number `shrunk` of
                \* record_success writes since
    successes,  \* history: exchanges of RateLimiter::record_success that succeeded
    pl,         \* translate_to_english_with_options: its arguments, its locals
                \* and where it is suspended
    cache,      \* the TranslationCache: the store and the session counters
    gets,       \* history: the calls of TranslationCache::get made one by one
                \* (SpecCache), in order
    chunk_in,   \* chunk_text: the argument `text`, a sequence of characters
    chunk_out,  \* chunk_text: what the call returned (None: not called yet)
    pres_in,    \* the preserver: the argument `text`, a sequence of characters
    pres_cfg,   \* the preserver: the argument `config`
    pres_out,   \* the preserver: the extraction and the restoration made of
                \* it (None: not called yet)
    abandoned,  \* history: how many calls were dropped while suspended, and
                \* the second at which the latest of them that was a trial
                \* of the breaker had been admitted (0: none)
    ev,         \* enforce_size_limit: the round it is in, the entries of the
                \* store, and what the last round did
    cg          \* history: the latest congestion signal that raised the
                \* limiter's delay from 0, and the callers of
                \* wait_if_needed() since

breakerVars  == <<cb>>
limiterVars  == <<rl>>
callVars     == <<pc, attempt, wake_at, text, result, last_error>>
dispatchVars == <<chunks, next_start, results, dstate, ret>>
threadVars   == <<tpc, t_opened_at, t_now, t_failures>>
historyVars  == <<fail_run, budget, closings, last_trial, closed_from, overtook,
                  invocations, last_reply>>
limiterThreadVars == <<t_min_delay, t_current_next, t_current, t_new_delay,
                       t_retry_after, t_wake>>
limiterHistoryVars == <<panicked, reserved, last_op, signal_run, successes>>
pipelineVars == <<pl, cache>>
pureVars     == <<gets, chunk_in, chunk_out, pres_in, pres_cfg, pres_out, abandoned, ev, cg>>
otherVars    == <<limiterThreadVars, limiterHistoryVars, pipelineVars, pureVars>>
vars == <<now, cb, rl, pc, attempt, wake_at, text, result, last_error,
          chunks, next_start, results, dstate, ret,
          tpc, t_opened_at, t_now, t_failures,
          fail_run, budget, closings, last_trial, closed_from, overtook,
          invocations, last_reply,
          t_min_delay, t_current_next, t_current, t_new_delay,
          t_retry_after, t_wake,
          panicked, reserved, last_op, signal_run, successes,
          pl, cache, gets, chunk_in, chunk_out, pres_in, pres_cfg, pres_out,
          abandoned, ev, cg>>

---------------------------------------------------------------------------
(* Bounds of the model *)

\* CircuitBreaker::with_params(threshold, reset_timeout_secs)
Threshold == 2
ResetTimeoutSecs == 2
\* ResilienceConfig.max_retries
MaxRetries == 2
\* concurrent top-level calls of the orchestrator (Spec)
NumCalls == 2
\* the longest chunk list dispatched (SpecDispatch)
MaxChunks == 6
\* threads calling the breaker (SpecThreads)
NumThreads == 3
\* the clock stops at MaxSecs seconds
MaxSecs == 4
\* error replies of the backend in one behaviour (Spec, SpecThreads)
MaxFaults == 3
\* error replies of the backend in one dispatch (SpecDispatch)
MaxDispatchFaults == 1
\* the same two bounds for SpecThreads
MaxThreadSecs == 5
MaxThreadFaults == 3
\* clock ticks per second
TicksPerSec == 1

(* Program constants *)
MAX_CONCURRENT_TRANSLATIONS == 5
DEFAULT_RETRY_BASE_DELAY_MS == 200
max_delay_ms == 30000
backoff_multiplier == 2

\* the clock at program start, seconds since the epoch
StartSecs == 1

TickMs == 1000 \div TicksPerSec
StartMs == StartSecs * 1000
MaxTime == MaxSecs * 1000
MaxThreadTime == MaxThreadSecs * 1000
CallIds == 1 .. MaxChunks
Threads == 1 .. NumThreads

Max(a, b) == IF a >= b THEN a ELSE b
Min(a, b) == IF a <= b THEN a ELSE b
\* u64::saturating_sub
saturating_sub(a, b) == IF a >= b THEN a - b ELSE 0

\* A u64 that may exceed the integers of the checker: four 16-bit limbs,
\* least significant first.  U64(n) is the u64 of a small integer n.
LimbBase == 2^16
U64(n) == <<n % LimbBase, n \div LimbBase, 0, 0>>
U64_MAX == <<LimbBase - 1, LimbBase - 1, LimbBase - 1, LimbBase - 1>>
is_small_u64(x) == x[2] = 0 /\ x[3] = 0 /\ x[4] = 0

\* x * k on u64 for a small factor k: the product modulo 2^64 and whether
\* the exact product is 2^64 or more
mul_u64(x, k) ==
    LET p1 == x[1] * k
        p2 == x[2] * k + (p1 \div LimbBase)
        p3 == x[3] * k + (p2 \div LimbBase)
        p4 == x[4] * k + (p3 \div LimbBase)
    IN [ val |-> <<p1 % LimbBase, p2 % LimbBase, p3 % LimbBase, p4 % LimbBase>>,
         overflow |-> (p4 \div LimbBase) # 0 ]

\* x \div k on u64 for a small divisor k (long division from the top limb)
div_u64(x, k) ==
    LET c4 == x[4]
        c3 == (c4 % k) * LimbBase + x[3]
        c2 == (c3 % k) * LimbBase + x[2]
        c1 == (c2 % k) * LimbBase + x[1]
    IN <<c1 \div k, c2 \div k, c3 \div k, c4 \div k>>

\* x + 1 on u64, for x below u64::MAX
succ_u64(x) ==
    IF x[1] < LimbBase - 1 THEN <<x[1] + 1, x[2], x[3], x[4]>>
    ELSE IF x[2] < LimbBase - 1 THEN <<0, x[2] + 1, x[3], x[4]>>
    ELSE IF x[3] < LimbBase - 1 THEN <<0, 0, x[3] + 1, x[4]>>
    ELSE <<0, 0, 0, x[4] + 1>>

\* u64::min(x, m) for a bound m below 2^16, as an integer
min_u64(x, m) == IF is_small_u64(x) /\ x[1] <= m THEN x[1] ELSE m

\* Option<T>: None is <<>>, Some(x) is <<x>>
None == <<>>

\* no congestion signal has raised the delay from 0 yet
NoSignal == [signalled |-> FALSE, at |-> 0, d |-> 0, next |-> 0, waits |-> <<>>,
             oks |-> 0]

\* no call of enforce_size_limit yet
EvictIdle ==
    [pc |-> "idle", round |-> 0, len |-> 0, before |-> 0, target |-> 0,
     removed |-> 0, over |-> FALSE, why |-> ""]

\* no call has been dropped yet
NoneAbandoned == [n |-> 0, trial_at |-> 0]
Some(x) == <<x>>

---------------------------------------------------------------------------
(* src/src/config.rs: ResilienceConfig::default(), with the model's bounds
   for the values the breaker and the retry loop are built from *)
config ==
    [ max_retries                |-> MaxRetries,
      retry_base_delay_ms        |-> DEFAULT_RETRY_BASE_DELAY_MS,
      circuit_breaker_threshold  |-> Threshold,
      circuit_breaker_reset_secs |-> ResetTimeoutSecs ]

\* current_timestamp_secs() / current_timestamp_ms()
current_timestamp_ms == now
current_timestamp_secs == now \div 1000

---------------------------------------------------------------------------
(* src/src/error.rs *)

\* Error values: the variant and its payload
Err_RateLimited(retry_after) == [kind |-> "RateLimited", arg |-> retry_after]
Err_RetryableHttp == [kind |-> "RetryableHttp", arg |-> None]
Err_AuthError     == [kind |-> "AuthError", arg |-> None]
Err_CircuitOpen(secs) == [kind |-> "CircuitOpen", arg |-> Some(secs)]
Err_QuotaExceeded == [kind |-> "QuotaExceeded", arg |-> None]
Err_Translation   == [kind |-> "Translation", arg |-> None]
Err_Timeout       == [kind |-> "Timeout", arg |-> None]
Err_Cache         == [kind |-> "Cache", arg |-> None]

\* Error::category
category(e) ==
    CASE e.kind = "RateLimited"   -> "RateLimit"
      [] e.kind = "RetryableHttp" -> "Server"
      [] e.kind = "AuthError"     -> "Auth"
      [] e.kind = "QuotaExceeded" -> "Quota"
      [] e.kind = "Translation"   -> "Client"
      [] e.kind = "Cache"         -> "Cache"
      [] e.kind = "CircuitOpen"   -> "Server"
      [] e.kind = "Timeout"       -> "Network"
      [] e.kind = "ConnectionFailed" -> "Network"
      [] OTHER -> "Unknown"

\* a classification under which every error is retried
is_retryable_always(e) == category(e) = category(e)

\* Error::is_retryable
is_retryable(e) == category(e) \in {"RateLimit", "Server", "Network"}

\* Error::retry_after_secs
retry_after_secs(e) == IF e.kind = "RateLimited" THEN e.arg ELSE None

\* Result<String>
NoError == [kind |-> "", arg |-> None]
Ok(v)  == [ok |-> TRUE,  val |-> v,  err |-> NoError]
Err(e) == [ok |-> FALSE, val |-> <<>>, err |-> e]
NoResult == [ok |-> FALSE, val |-> <<>>, err |-> [kind |-> "pending", arg |-> None]]

---------------------------------------------------------------------------
(* src/src/resilience.rs: CircuitBreaker, each method run without
   interference (one task).  The counters are u32/u64 atomics; the bounds
   keep them far below the width at which fetch_add wraps. *)

\* CircuitBreaker::with_params
CircuitBreaker_with_params(threshold, reset_timeout_secs) ==
    [ failure_count      |-> 0,
      threshold          |-> threshold,
      opened_at          |-> 0,
      reset_timeout_secs |-> reset_timeout_secs,
      total_failures     |-> 0,
      recoveries         |-> 0 ]

\* CircuitBreaker::state at clock value t (seconds)
state(b, t) ==
    IF b.opened_at = 0 THEN "Closed"
    ELSE IF saturating_sub(t, b.opened_at) >= b.reset_timeout_secs THEN "HalfOpen"
    ELSE "Open"

\* allow_request that keeps the slot of a trial until the trial reports
cb_allow_request_hold(b, t) ==
    IF b.opened_at = 0 THEN [ok |-> TRUE, cb |-> b]
    ELSE IF saturating_sub(t, b.opened_at) < b.reset_timeout_secs
         THEN [ok |-> FALSE, cb |-> b]
         ELSE [ok |-> TRUE, cb |-> [b EXCEPT !.opened_at = t + 1000000]]

\* allow_request that admits a call whatever the state
cb_allow_request_any(b, t) ==
    IF b.opened_at # 0 /\ saturating_sub(t, b.opened_at) >= b.reset_timeout_secs
    THEN [ok |-> TRUE, cb |-> [b EXCEPT !.opened_at = t]]
    ELSE [ok |-> TRUE, cb |-> b]

\* CircuitBreaker::allow_request at clock value t: the returned bool and the
\* breaker it leaves
cb_allow_request(b, t) ==
    IF b.opened_at = 0 THEN [ok |-> TRUE, cb |-> b]
    ELSE IF saturating_sub(t, b.opened_at) < b.reset_timeout_secs
         THEN [ok |-> FALSE, cb |-> b]
         ELSE [ok |-> TRUE, cb |-> [b EXCEPT !.opened_at = t]]

\* record_success that leaves the consecutive count alone
cb_record_success_keep(b) ==
    [b EXCEPT !.opened_at = 0,
              !.recoveries = IF b.opened_at # 0 THEN @ + 1 ELSE @]

\* CircuitBreaker::record_success
cb_record_success(b) ==
    [b EXCEPT !.opened_at = 0,
              !.recoveries = IF b.opened_at # 0 THEN @ + 1 ELSE @,
              !.failure_count = 0]

\* record_failure that opens one failure late (> for >=)
cb_record_failure_late(b, t) ==
    LET failures == b.failure_count + 1 IN
    [b EXCEPT !.total_failures = @ + 1,
              !.failure_count = failures,
              !.opened_at = IF failures > b.threshold /\ @ = 0 THEN t ELSE @]

\* record_failure that stamps opened_at whenever the count is at the
\* threshold or above (no exchange from 0)
cb_record_failure_rearm(b, t) ==
    LET failures == b.failure_count + 1 IN
    [b EXCEPT !.total_failures = @ + 1,
              !.failure_count = failures,
              !.opened_at = IF failures >= b.threshold THEN t ELSE @]

\* CircuitBreaker::record_failure at clock value t
cb_record_failure(b, t) ==
    LET failures == b.failure_count + 1 IN
    [b EXCEPT !.total_failures = @ + 1,
              !.failure_count = failures,
              !.opened_at = IF failures >= b.threshold /\ @ = 0 THEN t ELSE @]

---------------------------------------------------------------------------
(* src/src/resilience.rs: RateLimiter *)

\* RateLimiter::new
RateLimiter_new ==
    [ min_delay_ms |-> 0, next_allowed_ms |-> 0, rate_limit_hits |-> 0 ]

\* wait_if_needed whose caller waits the delay after its slot
rl_wait_if_needed_late(r, t) ==
    IF r.min_delay_ms = 0 THEN [rl |-> r, wait_time |-> 0]
    ELSE LET effective_next == Max(r.next_allowed_ms, t) + r.min_delay_ms
         IN [rl |-> [r EXCEPT !.next_allowed_ms = effective_next],
             wait_time |-> saturating_sub(effective_next, t)]

\* RateLimiter::wait_if_needed at clock value t (ms): the limiter it leaves
\* and the time the caller sleeps
rl_wait_if_needed(r, t) ==
    IF r.min_delay_ms = 0 THEN [rl |-> r, wait_time |-> 0]
    ELSE LET effective_next == Max(r.next_allowed_ms, t)
             new_next == effective_next + r.min_delay_ms
         IN [rl |-> [r EXCEPT !.next_allowed_ms = new_next],
             wait_time |-> saturating_sub(effective_next, t)]

\* record_success that rounds 0.75 * current to the nearest integer
rl_record_success_round(r) ==
    IF r.min_delay_ms = 0 THEN r
    ELSE [r EXCEPT !.min_delay_ms = (@ * 3 + 2) \div 4]

\* RateLimiter::record_success: (current as f64 * 0.75) as u64
rl_record_success(r) ==
    IF r.min_delay_ms = 0 THEN r
    ELSE [r EXCEPT !.min_delay_ms = (@ * 3) \div 4]

\* record_rate_limit: `secs * 1000` is 2^64 or more
secs_overflow(retry_after) ==
    retry_after # None /\ mul_u64(retry_after[1], 1000).overflow

\* record_rate_limit: the `new_delay` it computes from its argument and the
\* delay `current` it loaded; `secs * 1000` wraps (a build without overflow
\* checks)
new_delay_of(retry_after, current) ==
    IF retry_after # None
    THEN min_u64(mul_u64(retry_after[1], 1000).val, max_delay_ms)
    ELSE Min(Max(current, 100) * backoff_multiplier, max_delay_ms)

\* record_rate_limit that doubles the delay without the floor of 100
rl_record_rate_limit_nofloor(r, retry_after) ==
    [r EXCEPT !.rate_limit_hits = @ + 1,
              !.min_delay_ms = IF retry_after # None
                               THEN new_delay_of(retry_after, r.min_delay_ms)
                               ELSE Min(r.min_delay_ms * backoff_multiplier,
                                        max_delay_ms)]

\* RateLimiter::record_rate_limit, where `secs * 1000` does not panic
rl_record_rate_limit(r, retry_after) ==
    [r EXCEPT !.rate_limit_hits = @ + 1,
              !.min_delay_ms = new_delay_of(retry_after, r.min_delay_ms)]

\* RateLimiter::record_rate_limit in a build with overflow checks when
\* `secs * 1000` overflows: the panic comes after the fetch_add
rl_record_rate_limit_panic(r) ==
    [r EXCEPT !.rate_limit_hits = @ + 1]

\* RateLimiter::reset
rl_reset(r) == [r EXCEPT !.min_delay_ms = 0, !.next_allowed_ms = 0]

---------------------------------------------------------------------------
(* src/src/translator.rs: google_translate_with_retry_config *)

\* the backend: what google_translate returns for `t` when it succeeds
Translate(t) == <<"en", t>>

\* what the backend may answer
RetryAfterValues == {None, Some(U64(1))}
BackendErrors ==
    {Err_AuthError, Err_QuotaExceeded, Err_Translation,
     Err_RetryableHttp, Err_Timeout} \cup
    {Err_RateLimited(ra) : ra \in RetryAfterValues}

\* fastrand::u64(0..100): the extremes
JitterValues == {0, 99}

Pow2(n) == IF n = 0 THEN 1 ELSE IF n = 1 THEN 2 ELSE IF n = 2 THEN 4
           ELSE IF n = 3 THEN 8 ELSE 16

\* The head of one loop iteration: rl.wait_if_needed().await, then the
\* request of google_translate is sent.  `b` is the breaker the code before
\* it left.
BeginAttempt(c, b, a) ==
    LET w == rl_wait_if_needed(rl, current_timestamp_ms) IN
    /\ cb' = b
    /\ rl' = w.rl
    /\ attempt' = [attempt EXCEPT ![c] = a]
    /\ IF w.wait_time > 0
       THEN /\ pc' = [pc EXCEPT ![c] = "limiter_sleep"]
            /\ wake_at' = [wake_at EXCEPT ![c] = current_timestamp_ms + w.wait_time]
            /\ invocations' = invocations
       ELSE /\ pc' = [pc EXCEPT ![c] = "backend"]
            /\ wake_at' = [wake_at EXCEPT ![c] = 0]
            /\ invocations' = [invocations EXCEPT ![c] = @ + 1]
    /\ result' = result

\* a rejection that is counted as a failure of the backend
RejectedCounted(c) ==
    /\ cb' = cb_record_failure(cb, current_timestamp_secs)
    /\ rl' = rl
    /\ pc' = [pc EXCEPT ![c] = "done"]
    /\ result' = [result EXCEPT ![c] =
                    Err(Err_CircuitOpen(config.circuit_breaker_reset_secs))]
    /\ UNCHANGED <<attempt, wake_at, invocations>>

\* What a call does with a rejection of the breaker (lines 248-252)
Rejected(c) ==
    /\ cb' = cb
    /\ rl' = rl
    /\ pc' = [pc EXCEPT ![c] = "done"]
    /\ result' = [result EXCEPT ![c] =
                    Err(Err_CircuitOpen(config.circuit_breaker_reset_secs))]
    /\ UNCHANGED <<attempt, wake_at, invocations>>

\* The call is first polled: the breaker is asked, and the first attempt
\* begins (lines 244-260)
StartBody(c, txt) ==
    /\ pc[c] = "idle"
    /\ text' = [text EXCEPT ![c] = txt]
    /\ last_error' = [last_error EXCEPT ![c] = None]
    /\ LET ar == cb_allow_request(cb, current_timestamp_secs) IN
       IF ~ar.ok
       THEN Rejected(c)
       ELSE BeginAttempt(c, ar.cb, 0)
    /\ last_trial' = IF cb_allow_request(cb, current_timestamp_secs).cb.opened_at
                          # cb.opened_at
                     THEN current_timestamp_secs ELSE last_trial
    /\ UNCHANGED <<fail_run, budget, closings, closed_from, overtook, last_reply>>

\* the sleep of wait_if_needed ends
LimiterWake(c) ==
    /\ pc[c] = "limiter_sleep"
    /\ current_timestamp_ms >= wake_at[c]
    /\ pc' = [pc EXCEPT ![c] = "backend"]
    /\ wake_at' = [wake_at EXCEPT ![c] = 0]
    /\ invocations' = [invocations EXCEPT ![c] = @ + 1]
    /\ UNCHANGED <<now, cb, rl, attempt, text, result, last_error>>
    /\ UNCHANGED <<fail_run, budget, closings, last_trial, closed_from, overtook,
                   last_reply>>
    /\ UNCHANGED <<dispatchVars, threadVars>>
    /\ UNCHANGED otherVars

\* the calls that are suspended at an await
Running == {c \in CallIds : pc[c] \in {"limiter_sleep", "backend", "backoff_sleep"}}

\* in a dispatch, call c finishes while the call of an earlier chunk runs
Overtakes(c) == dstate = "running" /\ \E j \in Running : j < c

\* google_translate returns Ok (lines 261-266)
BackendOk(c) ==
    /\ pc[c] = "backend"
    /\ cb' = cb_record_success(cb)
    /\ rl' = rl_record_success(rl)
    /\ pc' = [pc EXCEPT ![c] = "done"]
    /\ result' = [result EXCEPT ![c] = Ok(Translate(text[c]))]
    /\ fail_run' = 0
    /\ closings' = IF cb.opened_at # 0 THEN closings + 1 ELSE closings
    /\ overtook' = (overtook \/ Overtakes(c))
    /\ last_trial' = 0
    /\ closed_from' = IF cb.opened_at # 0 THEN state(cb, current_timestamp_secs)
                      ELSE closed_from
    /\ last_reply' = [last_reply EXCEPT ![c] = Some(NoError)]
    /\ UNCHANGED <<now, attempt, wake_at, text, last_error, budget, invocations>>
    /\ UNCHANGED <<dispatchVars, threadVars>>
    /\ UNCHANGED otherVars

\* a rate-limit reply is signalled without its suggested delay
AfterRateLimitPlain(r, e) ==
    IF e.kind = "RateLimited" THEN rl_record_rate_limit(r, None) ELSE r

\* the limiter is told of a rate-limit reply (lines 269-273)
AfterRateLimit(r, e) ==
    IF retry_after_secs(e) # None
    THEN rl_record_rate_limit(r, retry_after_secs(e))
    ELSE IF e.kind = "RateLimited" THEN rl_record_rate_limit(r, None)
    ELSE r

\* google_translate returns Err(e) (lines 267-291)
BackendErr(c, e) ==
    /\ pc[c] = "backend"
    /\ budget > 0
    /\ budget' = budget - 1
    /\ rl' = AfterRateLimit(rl, e)
    /\ IF ~is_retryable(e) \/ attempt[c] = config.max_retries - 1
       THEN /\ cb' = cb_record_failure(cb, current_timestamp_secs)
            /\ pc' = [pc EXCEPT ![c] = "done"]
            /\ result' = [result EXCEPT ![c] = Err(e)]
            /\ fail_run' = fail_run + 1
            /\ overtook' = (overtook \/ Overtakes(c))
            /\ UNCHANGED <<attempt, wake_at, last_error>>
       ELSE /\ last_error' = [last_error EXCEPT ![c] = Some(e)]
            /\ \E jitter \in JitterValues :
                 LET base_delay == config.retry_base_delay_ms * Pow2(attempt[c]) IN
                 wake_at' = [wake_at EXCEPT ![c] =
                               current_timestamp_ms + base_delay + jitter]
            /\ pc' = [pc EXCEPT ![c] = "backoff_sleep"]
            /\ UNCHANGED <<cb, attempt, result, fail_run, overtook>>
    /\ last_reply' = [last_reply EXCEPT ![c] = Some(e)]
    /\ UNCHANGED <<now, text, closings, last_trial, closed_from, invocations>>
    /\ UNCHANGED <<dispatchVars, threadVars>>
    /\ UNCHANGED otherVars

\* the backoff sleep ends and the next iteration begins
BackoffWake(c) ==
    /\ pc[c] = "backoff_sleep"
    /\ current_timestamp_ms >= wake_at[c]
    /\ BeginAttempt(c, cb, attempt[c] + 1)
    /\ UNCHANGED <<now, text, last_error>>
    /\ UNCHANGED <<fail_run, budget, closings, last_trial, closed_from, overtook,
                   last_reply>>
    /\ UNCHANGED <<dispatchVars, threadVars>>
    /\ UNCHANGED otherVars

---------------------------------------------------------------------------
(* Top-level calls (translate_with_chunking with a single chunk) *)

\* a caller invokes google_translate_with_retry
CallStart(c) ==
    /\ StartBody(c, c)
    /\ UNCHANGED <<now>>
    /\ UNCHANGED <<dispatchVars, threadVars>>
    /\ UNCHANGED otherVars

\* the caller takes the result; the slot is free for its next call
CallReturn(c) ==
    /\ pc[c] = "done"
    /\ pc' = [pc EXCEPT ![c] = "idle"]
    /\ result' = [result EXCEPT ![c] = NoResult]
    /\ attempt' = [attempt EXCEPT ![c] = 0]
    /\ last_error' = [last_error EXCEPT ![c] = None]
    /\ invocations' = [invocations EXCEPT ![c] = 0]
    /\ last_reply' = [last_reply EXCEPT ![c] = None]
    /\ UNCHANGED <<now, cb, rl, wake_at, text>>
    /\ UNCHANGED <<fail_run, budget, closings, last_trial, closed_from, overtook>>
    /\ UNCHANGED <<dispatchVars, threadVars>>
    /\ UNCHANGED otherVars

---------------------------------------------------------------------------
(* src/src/translator.rs: translate_chunks.
   stream::iter(chunks).map(..).buffered(N).collect(): Buffered pulls the
   next chunk's future from the stream while fewer than N futures are in its
   FuturesOrdered queue (running or finished but not yet yielded), polls
   them, and yields the output of the oldest one once it is ready. *)

\* the futures Buffered holds: handed out by the stream and not yet yielded
InProgress == (next_start - 1) - Len(results)

\* Buffered without its limit
CanStartUnbounded ==
    /\ dstate = "running"
    /\ next_start <= Len(chunks)

\* Buffered::poll_next pulls another future from the stream
CanStart ==
    /\ dstate = "running"
    /\ next_start <= Len(chunks)
    /\ InProgress < MAX_CONCURRENT_TRANSLATIONS

\* a queue that yields outputs as they complete (buffer_unordered)
YieldUnordered(i) == pc[i] = "done"

\* FuturesOrdered yields the output of call i next
YieldReady(i) == i = Len(results) + 1 /\ pc[i] = "done"

\* a collect that keeps the error of the last failed chunk
collect_last_error(rs) ==
    LET bad == {i \in 1 .. Len(rs) : ~rs[i].ok} IN
    IF bad = {}
    THEN Ok([i \in 1 .. Len(rs) |-> rs[i].val])
    ELSE Err(rs[CHOOSE i \in bad : \A j \in bad : i >= j].err)

\* results.into_iter().collect::<Result<Vec<String>>>()
collect_results(rs) ==
    LET bad == {i \in 1 .. Len(rs) : ~rs[i].ok} IN
    IF bad = {}
    THEN Ok([i \in 1 .. Len(rs) |-> rs[i].val])
    ELSE Err(rs[CHOOSE i \in bad : \A j \in bad : i <= j].err)

\* the future of the next chunk is created and polled for the first time
DispatchStart ==
    /\ CanStart
    /\ StartBody(next_start, chunks[next_start])
    /\ next_start' = next_start + 1
    /\ UNCHANGED <<now, chunks, results, dstate, ret>>
    /\ UNCHANGED threadVars
    /\ UNCHANGED otherVars

\* the stream yields the next output and collect() pushes it
DispatchYield ==
    /\ dstate = "running"
    /\ ~CanStart
    /\ \E i \in CallIds :
          /\ YieldReady(i)
          /\ results' = Append(results, result[i])
          /\ pc' = [pc EXCEPT ![i] = "yielded"]
    /\ UNCHANGED <<now, cb, rl, attempt, wake_at, text, result, last_error>>
    /\ UNCHANGED <<chunks, next_start, dstate, ret>>
    /\ UNCHANGED <<threadVars, historyVars>>
    /\ UNCHANGED otherVars

\* a dispatch that returns as soon as a collected output is an error
DispatchReturnEarly ==
    /\ dstate = "running"
    /\ \/ next_start > Len(chunks) /\ Len(results) = Len(chunks)
       \/ \E i \in 1 .. Len(results) : ~results[i].ok
    /\ ret' = collect_results(results)
    /\ dstate' = "returned"
    /\ UNCHANGED <<now, cb, rl>>
    /\ UNCHANGED <<chunks, next_start, results>>
    /\ UNCHANGED <<callVars, threadVars, historyVars>>
    /\ UNCHANGED otherVars

\* the stream is exhausted: collect() completes and translate_chunks returns
DispatchReturn ==
    /\ dstate = "running"
    /\ next_start > Len(chunks)
    /\ Len(results) = Len(chunks)
    /\ ret' = collect_results(results)
    /\ dstate' = "returned"
    /\ UNCHANGED <<now, cb, rl>>
    /\ UNCHANGED <<chunks, next_start, results>>
    /\ UNCHANGED <<callVars, threadVars, historyVars>>
    /\ UNCHANGED otherVars

\* the chunk lists translate_with_chunking dispatches: two chunks or more
ChunkLists == { [i \in 1 .. n |-> 100 + i] : n \in 2 .. MaxChunks }

---------------------------------------------------------------------------
(* src/src/resilience.rs: the CircuitBreaker methods as several threads run
   them, one atomic memory operation per step.  A thread makes the calls the
   retry orchestrator makes: allow_request(), and when admitted,
   record_success() or record_failure() once the backend has answered. *)

\* a successful compare-exchange of opened_at from `expected`
cas_ok(expected) == cb.opened_at = expected

\* allow_request: `let opened_at = self.opened_at.load(Acquire)` (line 88),
\* at the call and again after a failed CAS; returns true when it reads 0
AR_load(t) ==
    /\ tpc[t] \in {"idle", "ar_load"}
    /\ IF cb.opened_at = 0
       THEN /\ tpc' = [tpc EXCEPT ![t] = "admitted"]
            /\ t_opened_at' = [t_opened_at EXCEPT ![t] = 0]
       ELSE /\ tpc' = [tpc EXCEPT ![t] = "ar_clock"]
            /\ t_opened_at' = [t_opened_at EXCEPT ![t] = cb.opened_at]
    /\ t_now' = [t_now EXCEPT ![t] = 0]
    /\ UNCHANGED <<now, cb, rl, t_failures>>
    /\ UNCHANGED <<callVars, dispatchVars, historyVars>>
    /\ UNCHANGED otherVars

\* allow_request: `let now = current_timestamp_secs()` and the test of the
\* elapsed time (lines 95-101); returns false inside the open window
AR_clock(t) ==
    /\ tpc[t] = "ar_clock"
    /\ IF saturating_sub(current_timestamp_secs, t_opened_at[t])
            < cb.reset_timeout_secs
       THEN /\ tpc' = [tpc EXCEPT ![t] = "idle"]
            /\ t_opened_at' = [t_opened_at EXCEPT ![t] = 0]
            /\ UNCHANGED t_now
       ELSE /\ tpc' = [tpc EXCEPT ![t] = "ar_cas"]
            /\ t_now' = [t_now EXCEPT ![t] = current_timestamp_secs]
            /\ UNCHANGED t_opened_at
    /\ UNCHANGED <<now, cb, rl, t_failures>>
    /\ UNCHANGED <<callVars, dispatchVars, historyVars>>
    /\ UNCHANGED otherVars

\* allow_request with a store in place of the exchange
AR_cas_blind(t) ==
    /\ tpc[t] = "ar_cas"
    /\ cb' = [cb EXCEPT !.opened_at = t_now[t]]
    /\ tpc' = [tpc EXCEPT ![t] = "admitted"]
    /\ last_trial' = t_now[t]
    /\ t_opened_at' = [t_opened_at EXCEPT ![t] = 0]
    /\ t_now' = [t_now EXCEPT ![t] = 0]
    /\ UNCHANGED <<now, rl, t_failures>>
    /\ UNCHANGED <<fail_run, budget, closings, closed_from, overtook>>
    /\ UNCHANGED <<invocations, last_reply>>
    /\ UNCHANGED <<callVars, dispatchVars>>
    /\ UNCHANGED otherVars

\* allow_request: compare_exchange_weak(opened_at, now) (lines 105-113);
\* returns true when it succeeds.  The weak form may also fail when the
\* value is the expected one.  After a failure the loop loads again.
AR_cas(t) ==
    /\ tpc[t] = "ar_cas"
    /\ \/ /\ cas_ok(t_opened_at[t])
          /\ cb' = [cb EXCEPT !.opened_at = t_now[t]]
          /\ tpc' = [tpc EXCEPT ![t] = "admitted"]
          /\ last_trial' = t_now[t]
          /\ t_opened_at' = [t_opened_at EXCEPT ![t] = 0]
       \/ /\ tpc' = [tpc EXCEPT ![t] = "ar_load"]
          /\ UNCHANGED <<cb, last_trial, t_opened_at>>
    /\ t_now' = [t_now EXCEPT ![t] = 0]
    /\ UNCHANGED <<now, rl, t_failures>>
    /\ UNCHANGED <<fail_run, budget, closings, closed_from, overtook>>
    /\ UNCHANGED <<invocations, last_reply>>
    /\ UNCHANGED <<callVars, dispatchVars>>
    /\ UNCHANGED otherVars

\* record_success: `let opened_at = self.opened_at.load(Acquire)` (line 123),
\* called when the backend answered Ok
RS_load(t) ==
    /\ tpc[t] = "admitted"
    /\ t_opened_at' = [t_opened_at EXCEPT ![t] = cb.opened_at]
    /\ tpc' = [tpc EXCEPT ![t] = IF cb.opened_at # 0 THEN "rs_cas" ELSE "rs_store"]
    /\ UNCHANGED <<now, cb, rl, t_now, t_failures>>
    /\ UNCHANGED <<callVars, dispatchVars, historyVars>>
    /\ UNCHANGED otherVars

\* record_success with a store in place of the exchange
RS_cas_blind(t) ==
    /\ tpc[t] = "rs_cas"
    /\ cb' = [cb EXCEPT !.opened_at = 0]
    /\ tpc' = [tpc EXCEPT ![t] = "rs_inc"]
    /\ closings' = IF cb.opened_at # 0 THEN closings + 1 ELSE closings
    /\ last_trial' = 0
    /\ closed_from' = IF cb.opened_at # 0 THEN state(cb, current_timestamp_secs)
                      ELSE closed_from
    /\ UNCHANGED <<now, rl, t_opened_at, t_now, t_failures>>
    /\ UNCHANGED <<fail_run, budget, overtook, invocations, last_reply>>
    /\ UNCHANGED <<callVars, dispatchVars>>
    /\ UNCHANGED otherVars

\* record_success: compare_exchange(opened_at, 0) (lines 126-130)
RS_cas(t) ==
    /\ tpc[t] = "rs_cas"
    /\ IF cas_ok(t_opened_at[t])
       THEN /\ cb' = [cb EXCEPT !.opened_at = 0]
            /\ tpc' = [tpc EXCEPT ![t] = "rs_inc"]
            /\ closings' = closings + 1
            /\ last_trial' = 0
            /\ closed_from' = state(cb, current_timestamp_secs)
       ELSE /\ tpc' = [tpc EXCEPT ![t] = "rs_store"]
            /\ UNCHANGED <<cb, closings, last_trial, closed_from>>
    /\ UNCHANGED <<now, rl, t_opened_at, t_now, t_failures>>
    /\ UNCHANGED <<fail_run, budget, overtook, invocations, last_reply>>
    /\ UNCHANGED <<callVars, dispatchVars>>
    /\ UNCHANGED otherVars

\* record_success: recoveries.fetch_add(1) (line 131)
RS_inc(t) ==
    /\ tpc[t] = "rs_inc"
    /\ cb' = [cb EXCEPT !.recoveries = @ + 1]
    /\ tpc' = [tpc EXCEPT ![t] = "rs_store"]
    /\ UNCHANGED <<now, rl, t_opened_at, t_now, t_failures>>
    /\ UNCHANGED <<callVars, dispatchVars, historyVars>>
    /\ UNCHANGED otherVars

\* record_success: failure_count.store(0) (line 135), and the return
RS_store(t) ==
    /\ tpc[t] = "rs_store"
    /\ cb' = [cb EXCEPT !.failure_count = 0]
    /\ tpc' = [tpc EXCEPT ![t] = "idle"]
    /\ t_opened_at' = [t_opened_at EXCEPT ![t] = 0]
    /\ UNCHANGED <<now, rl, t_now, t_failures>>
    /\ UNCHANGED <<callVars, dispatchVars, historyVars>>
    /\ UNCHANGED otherVars

\* record_failure: total_failures.fetch_add(1) (line 143), called when the
\* backend answered with the call's final error
RF_total(t) ==
    /\ tpc[t] = "admitted"
    /\ budget > 0
    /\ budget' = budget - 1
    /\ cb' = [cb EXCEPT !.total_failures = @ + 1]
    /\ tpc' = [tpc EXCEPT ![t] = "rf_count"]
    /\ UNCHANGED <<now, rl, t_opened_at, t_now, t_failures>>
    /\ UNCHANGED <<fail_run, closings, last_trial, closed_from, overtook>>
    /\ UNCHANGED <<invocations, last_reply>>
    /\ UNCHANGED <<callVars, dispatchVars>>
    /\ UNCHANGED otherVars

\* record_failure: `let failures = failure_count.fetch_add(1) + 1` and the
\* test against the threshold (lines 144-146); returns when it is below
RF_count(t) ==
    /\ tpc[t] = "rf_count"
    /\ cb' = [cb EXCEPT !.failure_count = @ + 1]
    /\ LET failures == cb.failure_count + 1 IN
       IF failures >= cb.threshold
       THEN /\ tpc' = [tpc EXCEPT ![t] = "rf_clock"]
            /\ t_failures' = [t_failures EXCEPT ![t] = failures]
       ELSE /\ tpc' = [tpc EXCEPT ![t] = "idle"]
            /\ UNCHANGED t_failures
    /\ UNCHANGED <<now, rl, t_opened_at, t_now>>
    /\ UNCHANGED <<callVars, dispatchVars, historyVars>>
    /\ UNCHANGED otherVars

\* record_failure: current_timestamp_secs(), the argument of the exchange
\* (line 151)
RF_clock(t) ==
    /\ tpc[t] = "rf_clock"
    /\ t_now' = [t_now EXCEPT ![t] = current_timestamp_secs]
    /\ tpc' = [tpc EXCEPT ![t] = "rf_cas"]
    /\ UNCHANGED <<now, cb, rl, t_opened_at, t_failures>>
    /\ UNCHANGED <<callVars, dispatchVars, historyVars>>
    /\ UNCHANGED otherVars

\* record_failure with a store in place of the exchange
RF_cas_blind(t) ==
    /\ tpc[t] = "rf_cas"
    /\ cb' = [cb EXCEPT !.opened_at = t_now[t]]
    /\ tpc' = [tpc EXCEPT ![t] = "idle"]
    /\ t_now' = [t_now EXCEPT ![t] = 0]
    /\ t_failures' = [t_failures EXCEPT ![t] = 0]
    /\ UNCHANGED <<now, rl, t_opened_at>>
    /\ UNCHANGED <<callVars, dispatchVars, historyVars>>
    /\ UNCHANGED otherVars

\* record_failure: compare_exchange(0, now) (lines 149-156), and the return
RF_cas(t) ==
    /\ tpc[t] = "rf_cas"
    /\ IF cas_ok(0)
       THEN cb' = [cb EXCEPT !.opened_at = t_now[t]]
       ELSE UNCHANGED cb
    /\ tpc' = [tpc EXCEPT ![t] = "idle"]
    /\ t_now' = [t_now EXCEPT ![t] = 0]
    /\ t_failures' = [t_failures EXCEPT ![t] = 0]
    /\ UNCHANGED <<now, rl, t_opened_at>>
    /\ UNCHANGED <<callVars, dispatchVars, historyVars>>
    /\ UNCHANGED otherVars

---------------------------------------------------------------------------
(* src/src/resilience.rs: the methods that write the limiter's delay, called
   one after another (SpecLimiter) *)

\* congestion signals in one behaviour
MaxSignals == 3

\* the largest `secs` whose product with 1000 fits a u64, and the next one
MaxExactSecs == div_u64(U64_MAX, 1000)
FirstWrapSecs == succ_u64(MaxExactSecs)

\* the Retry-After values a reply may carry: any u64 the header parses to
SuggestedSecs ==
    {U64(s) : s \in {0, 1, 5, 29, 30, 31, 60}} \cup
    {MaxExactSecs, FirstWrapSecs, U64_MAX}

\* the arguments of record_rate_limit
SignalArgs == {None} \cup {Some(s) : s \in SuggestedSecs}

\* the limiter method called last
NoOp == [op |-> "", arg |-> None]
OpSignal(retry_after) == [op |-> "record_rate_limit", arg |-> retry_after]
OpSuccess == [op |-> "record_success", arg |-> None]
OpReset == [op |-> "reset", arg |-> None]

\* rl.record_rate_limit(retry_after); where `secs * 1000` overflows the
\* build decides between the wrapped product and a panic
LimiterSignal(retry_after) ==
    /\ ~panicked
    /\ rl.rate_limit_hits < MaxSignals
    /\ \/ /\ rl' = rl_record_rate_limit(rl, retry_after)
          /\ panicked' = panicked
       \/ /\ secs_overflow(retry_after)
          /\ rl' = rl_record_rate_limit_panic(rl)
          /\ panicked' = TRUE
    /\ last_op' = OpSignal(retry_after)
    /\ UNCHANGED <<now, cb, reserved, signal_run, successes>>
    /\ UNCHANGED <<callVars, dispatchVars, threadVars, historyVars, limiterThreadVars,
                   pipelineVars, pureVars>>

\* rl.record_success()
LimiterSuccess ==
    /\ ~panicked
    /\ rl' = rl_record_success(rl)
    /\ last_op' = OpSuccess
    /\ UNCHANGED <<now, cb, panicked, reserved, signal_run, successes>>
    /\ UNCHANGED <<callVars, dispatchVars, threadVars, historyVars, limiterThreadVars,
                   pipelineVars, pureVars>>

\* rl.reset()
LimiterReset ==
    /\ ~panicked
    /\ rl' = rl_reset(rl)
    /\ last_op' = OpReset
    /\ UNCHANGED <<now, cb, panicked, reserved, signal_run, successes>>
    /\ UNCHANGED <<callVars, dispatchVars, threadVars, historyVars, limiterThreadVars,
                   pipelineVars, pureVars>>

---------------------------------------------------------------------------
(* src/src/resilience.rs: the RateLimiter methods as several threads run
   them, one atomic memory operation per step (SpecLimiterThreads) *)

\* threads calling the limiter
NumLimiterThreads == 3
LimiterThreads == 1 .. NumLimiterThreads
\* reservations of wait_if_needed in one behaviour
MaxReservations == 4
\* successful exchanges of record_success in one behaviour
MaxSuccesses == 3
\* the clock stops at MaxLimiterSecs seconds
MaxLimiterSecs == 3
MaxLimiterTime == MaxLimiterSecs * 1000

\* what the limiter threads leave alone
limiterFrame ==
    <<cb, callVars, dispatchVars, historyVars, t_opened_at, t_failures,
      panicked, last_op, pipelineVars, pureVars>>

\* wait_if_needed: `let min_delay = self.min_delay_ms.load(Acquire)`
\* (lines 238-241); returns when it is 0
WN_load(t) ==
    /\ tpc[t] = "idle"
    /\ Len(reserved) + Cardinality({u \in LimiterThreads :
            tpc[u] \in {"wn_clock", "wn_next", "wn_cas"}}) < MaxReservations
    /\ IF rl.min_delay_ms = 0
       THEN UNCHANGED <<tpc, t_min_delay>>
       ELSE /\ tpc' = [tpc EXCEPT ![t] = "wn_clock"]
            /\ t_min_delay' = [t_min_delay EXCEPT ![t] = rl.min_delay_ms]
    /\ UNCHANGED <<now, rl, t_now, t_current_next, t_current, t_new_delay,
                   t_retry_after, t_wake, reserved, signal_run, successes>>
    /\ UNCHANGED limiterFrame

\* wait_if_needed: `let now = current_timestamp_ms()` (line 243)
WN_clock(t) ==
    /\ tpc[t] = "wn_clock"
    /\ t_now' = [t_now EXCEPT ![t] = current_timestamp_ms]
    /\ tpc' = [tpc EXCEPT ![t] = "wn_next"]
    /\ UNCHANGED <<now, rl, t_min_delay, t_current_next, t_current, t_new_delay,
                   t_retry_after, t_wake, reserved, signal_run, successes>>
    /\ UNCHANGED limiterFrame

\* wait_if_needed: `let current_next = self.next_allowed_ms.load(Acquire)`
\* (line 248), on entering the loop and after a failed exchange
WN_next(t) ==
    /\ tpc[t] = "wn_next"
    /\ t_current_next' = [t_current_next EXCEPT ![t] = rl.next_allowed_ms]
    /\ tpc' = [tpc EXCEPT ![t] = "wn_cas"]
    /\ UNCHANGED <<now, rl, t_now, t_min_delay, t_current, t_new_delay,
                   t_retry_after, t_wake, reserved, signal_run, successes>>
    /\ UNCHANGED limiterFrame

\* the end of wait_if_needed once `my_slot` is known (lines 265-268): the
\* sleep of `wait_time`, or the return
WN_reserved(t, my_slot, store_it) ==
    LET wait_time == saturating_sub(my_slot, t_now[t]) IN
    /\ reserved' = Append(reserved,
                          [slot |-> my_slot, delay |-> t_min_delay[t],
                           at |-> t_now[t], wait |-> wait_time])
    /\ IF wait_time > 0
       THEN /\ tpc' = [tpc EXCEPT ![t] = "wn_sleep"]
            /\ t_wake' = [t_wake EXCEPT ![t] = current_timestamp_ms + wait_time]
       ELSE /\ tpc' = [tpc EXCEPT ![t] = "idle"]
            /\ t_wake' = t_wake
    /\ rl' = IF store_it
             THEN [rl EXCEPT !.next_allowed_ms = my_slot + t_min_delay[t]]
             ELSE rl
    /\ t_min_delay' = [t_min_delay EXCEPT ![t] = 0]
    /\ t_current_next' = [t_current_next EXCEPT ![t] = 0]
    /\ t_now' = [t_now EXCEPT ![t] = 0]

\* wait_if_needed that takes its slot without the exchange: the slot is
\* computed from the value loaded, and next_allowed_ms is stored
WN_cas_blind(t) ==
    /\ tpc[t] = "wn_cas"
    /\ WN_reserved(t, Max(t_current_next[t], t_now[t]), TRUE)
    /\ UNCHANGED <<now, t_current, t_new_delay, t_retry_after, signal_run,
                   successes>>
    /\ UNCHANGED limiterFrame

\* wait_if_needed: compare_exchange_weak(current_next, new_next) (lines
\* 250-261); the weak form may fail though the value is the expected one
WN_cas(t) ==
    /\ tpc[t] = "wn_cas"
    /\ \/ /\ rl.next_allowed_ms = t_current_next[t]
          /\ WN_reserved(t, Max(t_current_next[t], t_now[t]), TRUE)
       \/ /\ tpc' = [tpc EXCEPT ![t] = "wn_next"]
          /\ UNCHANGED <<rl, t_now, t_min_delay, t_current_next, t_wake, reserved>>
    /\ UNCHANGED <<now, t_current, t_new_delay, t_retry_after, signal_run,
                   successes>>
    /\ UNCHANGED limiterFrame

\* wait_if_needed: the sleep ends and the method returns
WN_wake(t) ==
    /\ tpc[t] = "wn_sleep"
    /\ current_timestamp_ms >= t_wake[t]
    /\ tpc' = [tpc EXCEPT ![t] = "idle"]
    /\ t_wake' = [t_wake EXCEPT ![t] = 0]
    /\ UNCHANGED <<now, rl, t_now, t_min_delay, t_current_next, t_current,
                   t_new_delay, t_retry_after, reserved, signal_run, successes>>
    /\ UNCHANGED limiterFrame

\* record_success: `let current = self.min_delay_ms.load(Acquire)` (lines
\* 277-280), at the call and after a failed exchange; returns when it is 0
LS_load(t) ==
    /\ tpc[t] \in {"idle", "ls_load"}
    /\ tpc[t] = "idle" =>
          successes + Cardinality({u \in LimiterThreads :
              tpc[u] \in {"ls_load", "ls_cas"}}) < MaxSuccesses
    /\ IF rl.min_delay_ms = 0
       THEN /\ tpc' = [tpc EXCEPT ![t] = "idle"]
            /\ t_current' = [t_current EXCEPT ![t] = 0]
       ELSE /\ tpc' = [tpc EXCEPT ![t] = "ls_cas"]
            /\ t_current' = [t_current EXCEPT ![t] = rl.min_delay_ms]
    /\ UNCHANGED <<now, rl, t_now, t_min_delay, t_current_next, t_new_delay,
                   t_retry_after, t_wake, reserved, signal_run, successes>>
    /\ UNCHANGED limiterFrame

\* the threads inside a record_rate_limit(None)
SignallingNone ==
    {u \in LimiterThreads : tpc[u] \in {"lr_load", "lr_store"} /\ t_retry_after[u] = None}

\* the history of a write of the delay, by thread t, that is not a
\* record_rate_limit(None)
OtherWrite(t, delay) ==
    [signal_run EXCEPT !.base = delay, !.k = 0,
                       !.pure = SignallingNone \subseteq {t}]

\* record_success with a store in place of the exchange
LS_cas_blind(t) ==
    /\ tpc[t] = "ls_cas"
    /\ rl' = [rl EXCEPT !.min_delay_ms = (t_current[t] * 3) \div 4]
    /\ signal_run' = [OtherWrite(t, (t_current[t] * 3) \div 4)
                            EXCEPT !.shrunk = @ + 1]
    /\ successes' = successes + 1
    /\ tpc' = [tpc EXCEPT ![t] = "idle"]
    /\ t_current' = [t_current EXCEPT ![t] = 0]
    /\ UNCHANGED <<now, t_now, t_min_delay, t_current_next, t_new_delay,
                   t_retry_after, t_wake, reserved>>
    /\ UNCHANGED limiterFrame

\* record_success: compare_exchange_weak(current, new_delay) (lines 282-291)
LS_cas(t) ==
    /\ tpc[t] = "ls_cas"
    /\ \/ /\ rl.min_delay_ms = t_current[t]
          /\ rl' = [rl EXCEPT !.min_delay_ms = (t_current[t] * 3) \div 4]
          /\ signal_run' = [OtherWrite(t, (t_current[t] * 3) \div 4)
                            EXCEPT !.shrunk = @ + 1]
          /\ successes' = successes + 1
          /\ tpc' = [tpc EXCEPT ![t] = "idle"]
          /\ t_current' = [t_current EXCEPT ![t] = 0]
       \/ /\ tpc' = [tpc EXCEPT ![t] = "ls_load"]
          /\ UNCHANGED <<rl, signal_run, successes, t_current>>
    /\ UNCHANGED <<now, t_now, t_min_delay, t_current_next, t_new_delay,
                   t_retry_after, t_wake, reserved>>
    /\ UNCHANGED limiterFrame

\* record_rate_limit: rate_limit_hits.fetch_add(1) (line 299), and with a
\* suggested delay the `new_delay` computed from it (line 303)
LR_hits(t, retry_after) ==
    /\ tpc[t] = "idle"
    /\ rl.rate_limit_hits < MaxSignals
    /\ ~secs_overflow(retry_after)
    /\ rl' = [rl EXCEPT !.rate_limit_hits = @ + 1]
    /\ t_retry_after' = [t_retry_after EXCEPT ![t] = retry_after]
    /\ IF retry_after # None
       THEN /\ tpc' = [tpc EXCEPT ![t] = "lr_store"]
            /\ t_new_delay' = [t_new_delay EXCEPT ![t] = new_delay_of(retry_after, 0)]
       ELSE /\ tpc' = [tpc EXCEPT ![t] = "lr_load"]
            /\ UNCHANGED t_new_delay
    /\ UNCHANGED <<now, t_now, t_min_delay, t_current_next, t_current, t_wake,
                   reserved, signal_run, successes>>
    /\ UNCHANGED limiterFrame

\* record_rate_limit: `self.min_delay_ms.load(Acquire).max(100)` and the
\* doubled `new_delay` (lines 306-307)
LR_load(t) ==
    /\ tpc[t] = "lr_load"
    /\ t_new_delay' = [t_new_delay EXCEPT ![t] = new_delay_of(None, rl.min_delay_ms)]
    /\ tpc' = [tpc EXCEPT ![t] = "lr_store"]
    /\ UNCHANGED <<now, rl, t_now, t_min_delay, t_current_next, t_current,
                   t_retry_after, t_wake, reserved, signal_run, successes>>
    /\ UNCHANGED limiterFrame

\* record_rate_limit: min_delay_ms.store(new_delay) (line 310), and the return
LR_store(t) ==
    /\ tpc[t] = "lr_store"
    /\ rl' = [rl EXCEPT !.min_delay_ms = t_new_delay[t]]
    /\ signal_run' = [(IF t_retry_after[t] = None
                       THEN [signal_run EXCEPT !.k = @ + 1]
                       ELSE OtherWrite(t, t_new_delay[t]))
                      EXCEPT !.stored = t_new_delay[t], !.shrunk = 0]
    /\ tpc' = [tpc EXCEPT ![t] = "idle"]
    /\ t_new_delay' = [t_new_delay EXCEPT ![t] = 0]
    /\ t_retry_after' = [t_retry_after EXCEPT ![t] = None]
    /\ UNCHANGED <<now, t_now, t_min_delay, t_current_next, t_current, t_wake,
                   reserved, successes>>
    /\ UNCHANGED limiterFrame

---------------------------------------------------------------------------
(* src/src/detector.rs, src/src/cache.rs and the pipeline of
   src/src/translator.rs: translate_to_english_with_options *)

\* invocations of the pipeline in one behaviour (SpecPipeline)
MaxRuns == 3
\* the clock of SpecPipeline stops at MaxPipelineSecs seconds
MaxPipelineSecs == 3
MaxPipelineTime == MaxPipelineSecs * 1000

\* cache.rs: SIZE_CHECK_INTERVAL
SIZE_CHECK_INTERVAL == 50

\* The inputs: a text is known by its name, by the text that is left of it
\* when its preserved spans are replaced by placeholders (`body`), and by
\* the counts detect_language takes of its non-whitespace characters (CJK
\* ideographs, kana, hangul, all of them).
\* Every one of them is at most MAX_CHUNK_SIZE long: chunk_text leaves it
\* in one chunk.
PipelineInputs ==
    { [id |-> "en",    body |-> "en",    chinese |-> 0, japanese |-> 0, korean |-> 0, total |-> 4],
      [id |-> "empty", body |-> "empty", chinese |-> 0, japanese |-> 0, korean |-> 0, total |-> 0],
      [id |-> "low",   body |-> "low",   chinese |-> 1, japanese |-> 0, korean |-> 0, total |-> 20],
      [id |-> "zh",    body |-> "zh",    chinese |-> 4, japanese |-> 0, korean |-> 0, total |-> 4],
      [id |-> "ja",    body |-> "ja",    chinese |-> 3, japanese |-> 2, korean |-> 0, total |-> 5],
      [id |-> "ko",    body |-> "ko",    chinese |-> 1, japanese |-> 1, korean |-> 2, total |-> 5] }

\* Config: threshold in thousandths, cache.enabled, cache.ttl_days,
\* normalize_whitespace
\* normalize_whitespace: Config::default(), and the configurations that
\* differ from it in one field
DefaultConfig ==
    [ threshold |-> 100, cache_enabled |-> TRUE, ttl_days |-> 30,
      normalize_whitespace |-> FALSE, resilience |-> config ]
\* a retry policy of the caller's that is stricter than the default one: one
\* attempt, the breaker open at the first failed call, a trial a second later
CallerResilience ==
    [ max_retries                |-> 1,
      retry_base_delay_ms        |-> DEFAULT_RETRY_BASE_DELAY_MS,
      circuit_breaker_threshold  |-> 1,
      circuit_breaker_reset_secs |-> 1 ]
PipelineConfigs ==
    { DefaultConfig,
      [DefaultConfig EXCEPT !.resilience = CallerResilience],
      [DefaultConfig EXCEPT !.threshold = 0],
      [DefaultConfig EXCEPT !.cache_enabled = FALSE],
      [DefaultConfig EXCEPT !.ttl_days = 0],
      [DefaultConfig EXCEPT !.normalize_whitespace = TRUE] }

\* what the backend may answer to the pipeline's call
PipelineErrors ==
    {Err_AuthError, Err_RetryableHttp, Err_RateLimited(Some(U64(1)))}

\* the stores a process may find on disk: an empty one, and one in which an
\* earlier process left the translation of the input "zh" at second 0
StoredByEarlierRun ==
    [ translated |-> Translate(<<"placeholdered", "zh">>), timestamp |-> 0,
      source_lang |-> "zh-TW", target_lang |-> "en" ]
InitialStores ==
    { <<>>,
      [key \in {<<"zh-TW", "en", <<"placeholdered", "zh">>>>} |-> StoredByEarlierRun] }

\* Language::code
code(language) ==
    CASE language = "Chinese"  -> "zh-TW"
      [] language = "Japanese" -> "ja"
      [] language = "Korean"   -> "ko"
      [] language = "English"  -> "en"
      [] OTHER                 -> "auto"

\* detect_language: the dominant language (max_by_key returns the last of
\* the largest scores) and the ratio, kept as the fraction cjk / total
detect_language(t) ==
    LET c == t.chinese
        j == t.japanese + (t.chinese \div 3)
        k == t.korean
        language == IF k >= c /\ k >= j THEN "Korean"
                    ELSE IF j >= c THEN "Japanese" ELSE "Chinese"
        count == Max(c, Max(j, k))
        cjk_total == t.korean + t.japanese + t.chinese
    IN [ language |-> IF count = 0 THEN "English" ELSE language,
         cjk |-> IF t.total > 0 THEN cjk_total ELSE 0,
         total |-> IF t.total > 0 THEN t.total ELSE 1 ]

\* `detection.ratio < config.threshold`
ratio_below(detection, threshold) ==
    detection.cjk * 1000 < threshold * detection.total

\* the pipeline goes on whatever the detection says
should_skip_never(detection, cfg) == detection.language = "Unknown"

\* the test of lines 334: below the threshold, or English already
should_skip(detection, cfg) ==
    ratio_below(detection, cfg.threshold) \/ detection.language = "English"

\* the conversions of the pipeline, each known by what it was applied to
extract_and_preserve_with_config(t) ==
    [text |-> <<"placeholdered", t.body>>, segments |-> <<"segments", t.id>>]
normalize_whitespace_internal(s) == <<"normalized", s>>
restore_preserved(s, segments) == <<"restored", s, segments>>
count_tokens(s) == <<"tokens", s>>

\* TranslationCache::make_key: the digest of the three strings
make_key(source_lang, target_lang, s) == <<source_lang, target_lang, s>>

\* the cache of a fresh process: an empty store, counters at 0; `stub` is
\* the build without the "cache" feature
TranslationCache_open(stub, db) ==
    [stub |-> stub, db |-> db, hits |-> 0, misses |-> 0, inserts |-> 0]
TranslationCache_new(stub) == TranslationCache_open(stub, <<>>)

ttl_secs(cfg) == cfg.ttl_days * 24 * 60 * 60

\* the store holds an entry for the key that get() at second t returns
HoldsUnexpired(cch, cfg, key, t) ==
    /\ ~cch.stub
    /\ key \in DOMAIN cch.db
    /\ t - cch.db[key].timestamp <= ttl_secs(cfg)

\* a lookup that misses whatever the store holds
cache_get_miss(cch, cfg, key, t) ==
    [cache |-> [cch EXCEPT !.misses = @ + 1], entry |-> None]

\* a lookup that never expires an entry
cache_get_forever(cch, cfg, key, t) ==
    IF ~cch.stub /\ key \in DOMAIN cch.db
    THEN [cache |-> [cch EXCEPT !.hits = @ + 1], entry |-> Some(cch.db[key])]
    ELSE [cache |-> [cch EXCEPT !.misses = @ + 1], entry |-> None]

\* TranslationCache::get at second t: the entry, and the cache it leaves
cache_get(cch, cfg, key, t) ==
    IF cch.stub THEN [cache |-> cch, entry |-> None]
    ELSE IF key \notin DOMAIN cch.db
    THEN [cache |-> [cch EXCEPT !.misses = @ + 1], entry |-> None]
    ELSE IF t - cch.db[key].timestamp > ttl_secs(cfg)
    THEN [cache |-> [cch EXCEPT !.misses = @ + 1,
                                !.db = [x \in DOMAIN cch.db \ {key} |-> cch.db[x]]],
          entry |-> None]
    ELSE [cache |-> [cch EXCEPT !.hits = @ + 1], entry |-> Some(cch.db[key])]

\* what enforce_size_limit may remove from the keys `keys`: nothing when
\* the size on disk is within the limit, else at least max(1, len / 4)
\* entries
Evictions(keys) ==
    {{}} \cup {v \in SUBSET keys :
                 Cardinality(v) >= Max(1, Cardinality(keys) \div 4)}

\* TranslationCache::put, with the entries `victims` evicted; `inserted`:
\* whether db.insert succeeds (its result is dropped: `let _ =`)
cache_put(cch, key, entry, victims, inserted) ==
    IF cch.stub THEN cch
    ELSE LET db == IF inserted
                   THEN [x \in DOMAIN cch.db \cup {key} |->
                           IF x = key THEN entry ELSE cch.db[x]]
                   ELSE cch.db
             checked == cch.inserts % SIZE_CHECK_INTERVAL = 0
             gone == IF checked THEN victims ELSE {}
         IN [cch EXCEPT !.inserts = @ + 1,
                        !.db = [x \in DOMAIN db \ gone |-> db[x]]]

\* a put whose failure is returned to the pipeline
put_failure_returned(out, inserted) ==
    IF inserted THEN out ELSE Err(Err_Cache)

\* the result of the pipeline after c.put(key, &entry): put returns
\* nothing, whatever became of the insert (lines 396-406)
after_put(out, inserted) == out

\* the text sent to the backend (lines 347-355) and its cache key (lines
\* 365-367)
text_for_translation(t, cfg) ==
    LET preserved == extract_and_preserve_with_config(t) IN
    IF cfg.normalize_whitespace
    THEN normalize_whitespace_internal(preserved.text)
    ELSE preserved.text
\* a cache key made of the text as it was given, preserved spans included
cache_key_of_original(t, cfg) ==
    make_key(code(detect_language(t).language), "en", <<"original", t.id>>)

cache_key_of(t, cfg) ==
    make_key(code(detect_language(t).language), "en", text_for_translation(t, cfg))

\* the pipeline between two invocations, after `runs` of them
PipelineIdle(runs) ==
    [ pc |-> "idle", runs |-> runs, text |-> None,
      language |-> "", segments |-> None, opened |-> FALSE, key |-> None,
      out |-> NoResult, open_failed |-> FALSE, put_failed |-> FALSE,
      resilience |-> config ]

\* the TranslationResult of an input that is not translated (lines 335-343)
Untranslated(t, detection) ==
    [ original |-> t.id, translated |-> t.id, was_translated |-> FALSE,
      source_language |-> detection.language,
      input_tokens |-> 0, output_tokens |-> 0, cache_hit |-> FALSE ]

\* the TranslationResult of a translation (lines 378-386, 415-423)
Translated(id, final_text, language, hit) ==
    [ original |-> id, translated |-> final_text, was_translated |-> TRUE,
      source_language |-> language,
      input_tokens |-> count_tokens(id),
      output_tokens |-> count_tokens(final_text), cache_hit |-> hit ]

\* translate_to_english_with_options(text, config, use_cache) is called and
\* runs to its return, or to the first suspension of
\* google_translate_with_retry (lines 331-393).  `open_ok`: whether
\* TranslationCache::open succeeds (the store may be locked by another
\* process).
PipelineCall(t, cfg, use_cache, open_ok) ==
    LET detection == detect_language(t)
        preserved == extract_and_preserve_with_config(t)
        opened == use_cache /\ cfg.cache_enabled /\ (cache.stub \/ open_ok)
        cache_key == cache_key_of(t, cfg)
        got == IF opened
               THEN cache_get(cache, cfg, cache_key, current_timestamp_secs)
               ELSE [cache |-> cache, entry |-> None]
        called == [pl EXCEPT !.runs = @ + 1, !.text = Some(t.id),
                             !.resilience = cfg.resilience,
                             !.language = detection.language,
                             !.open_failed =
                                 /\ ~should_skip(detection, cfg)
                                 /\ use_cache /\ cfg.cache_enabled /\ ~opened]
    IN
    /\ pl.pc = "idle"
    /\ pl.runs < MaxRuns
    /\ pc[1] = "idle"
    /\ IF should_skip(detection, cfg)
       THEN /\ pl' = [called EXCEPT !.pc = "returned",
                                    !.out = Ok(Untranslated(t, detection))]
            /\ cache' = cache
            /\ UNCHANGED <<cb, rl, callVars, historyVars>>
       ELSE IF got.entry # None
       THEN /\ pl' = [called EXCEPT
                        !.pc = "returned", !.opened = opened,
                        !.key = Some(cache_key),
                        !.out = Ok(Translated(t.id,
                                     restore_preserved(got.entry[1].translated,
                                                       preserved.segments),
                                     detection.language, TRUE))]
            /\ cache' = got.cache
            /\ UNCHANGED <<cb, rl, callVars, historyVars>>
       ELSE /\ pl' = [called EXCEPT !.pc = "translating", !.opened = opened,
                                    !.key = Some(cache_key),
                                    !.segments = Some(preserved.segments)]
            /\ cache' = got.cache
            /\ StartBody(1, text_for_translation(t, cfg))
    /\ UNCHANGED <<now>>
    /\ UNCHANGED <<dispatchVars, threadVars>>
    /\ UNCHANGED <<limiterThreadVars, limiterHistoryVars, pureVars>>

\* a pipeline that stores what it has when translate_with_chunking has
\* returned, an error included: the text it sent is put under the key
PipelineResumeStoring(inserted) ==
    /\ pl.pc = "translating"
    /\ pc[1] = "done"
    /\ LET entry == [ translated |-> IF result[1].ok THEN result[1].val
                                     ELSE text[1],
                      timestamp |-> current_timestamp_secs,
                      source_lang |-> code(pl.language),
                      target_lang |-> "en" ]
       IN /\ cache' = IF pl.opened
                      THEN cache_put(cache, pl.key[1], entry, {}, inserted)
                      ELSE cache
          /\ pl' = [pl EXCEPT
                      !.pc = "returned",
                      !.put_failed = pl.opened /\ ~cache.stub /\ ~inserted,
                      !.out = IF result[1].ok
                              THEN Ok(Translated(pl.text[1],
                                        restore_preserved(result[1].val,
                                                          pl.segments[1]),
                                        pl.language, FALSE))
                              ELSE result[1]]
    /\ pc' = [pc EXCEPT ![1] = "idle"]
    /\ result' = [result EXCEPT ![1] = NoResult]
    /\ attempt' = [attempt EXCEPT ![1] = 0]
    /\ last_error' = [last_error EXCEPT ![1] = None]
    /\ invocations' = [invocations EXCEPT ![1] = 0]
    /\ last_reply' = [last_reply EXCEPT ![1] = None]
    /\ text' = [text EXCEPT ![1] = <<>>]
    /\ UNCHANGED <<now, cb, rl, wake_at>>
    /\ UNCHANGED <<fail_run, budget, closings, last_trial, closed_from, overtook>>
    /\ UNCHANGED <<dispatchVars, threadVars>>
    /\ UNCHANGED <<limiterThreadVars, limiterHistoryVars, pureVars>>

\* translate_with_chunking has returned: the `?`, the cache put and the
\* result (lines 392-423)
PipelineResume(inserted) ==
    /\ pl.pc = "translating"
    /\ pc[1] = "done"
    /\ IF result[1].ok
       THEN LET translated_text == result[1].val
                entry == [ translated |-> translated_text,
                           timestamp |-> current_timestamp_secs,
                           source_lang |-> code(pl.language),
                           target_lang |-> "en" ]
            IN /\ \E victims \in Evictions(DOMAIN cache.db \cup {pl.key[1]}) :
                    cache' = IF pl.opened
                             THEN cache_put(cache, pl.key[1], entry, victims,
                                            inserted)
                             ELSE cache
               /\ pl' = [pl EXCEPT
                           !.pc = "returned",
                           !.put_failed = pl.opened /\ ~cache.stub /\ ~inserted,
                           !.out = after_put(
                                     Ok(Translated(pl.text[1],
                                          restore_preserved(translated_text,
                                                            pl.segments[1]),
                                          pl.language, FALSE)),
                                     ~pl.opened \/ cache.stub \/ inserted)]
       ELSE /\ cache' = cache
            /\ pl' = [pl EXCEPT !.pc = "returned", !.out = result[1]]
    /\ pc' = [pc EXCEPT ![1] = "idle"]
    /\ result' = [result EXCEPT ![1] = NoResult]
    /\ attempt' = [attempt EXCEPT ![1] = 0]
    /\ last_error' = [last_error EXCEPT ![1] = None]
    /\ invocations' = [invocations EXCEPT ![1] = 0]
    /\ last_reply' = [last_reply EXCEPT ![1] = None]
    /\ text' = [text EXCEPT ![1] = <<>>]
    /\ UNCHANGED <<now, cb, rl, wake_at>>
    /\ UNCHANGED <<fail_run, budget, closings, last_trial, closed_from, overtook>>
    /\ UNCHANGED <<dispatchVars, threadVars>>
    /\ UNCHANGED <<limiterThreadVars, limiterHistoryVars, pureVars>>

\* the caller of the pipeline takes the result
PipelineReturn ==
    /\ pl.pc = "returned"
    /\ pl' = PipelineIdle(pl.runs)
    /\ UNCHANGED <<now, cb, rl, cache>>
    /\ UNCHANGED <<callVars, dispatchVars, threadVars, historyVars>>
    /\ UNCHANGED <<limiterThreadVars, limiterHistoryVars, pureVars>>


---------------------------------------------------------------------------
(* src/src/translator.rs: chunk_text and find_split_point_single_pass.
   A text is a sequence of characters, each of a known encoded width; byte
   positions are counted as the code counts them.  MAX_CHUNK_SIZE is 4500
   in the source and is scaled down here; it stays at least as large as the
   widest character, as 4500 is. *)

MAX_CHUNK_SIZE == 4
\* the longest text tried, in characters
MaxTextChars == 5

\* the characters tried: U+3002, '.', '\n', ' ', '\r', 'a', U+00E9 (2
\* bytes), U+1F600 (4 bytes)
Alphabet == {"u3002", ".", "LF", "SP", "CR", "a", "u00E9", "u1F600"}

\* char::len_utf8
len_utf8(ch) ==
    CASE ch \in {"u3002", "uFF01", "uFF1F", "uFF61", "u4E2D"} -> 3
      [] ch = "u00E9"  -> 2
      [] ch = "u1F600" -> 4
      [] OTHER -> 1

\* str::len of the first n characters of s
RECURSIVE bytes_before(_, _)
bytes_before(s, n) ==
    IF n = 0 THEN 0 ELSE bytes_before(s, n - 1) + len_utf8(s[n])

\* str::len
str_len(s) == bytes_before(s, Len(s))

\* str::is_char_boundary
is_char_boundary(s, b) == \E n \in 0 .. Len(s) : bytes_before(s, n) = b

\* the number of characters before the boundary b
chars_before(s, b) == CHOOSE n \in 0 .. Len(s) : bytes_before(s, n) = b

\* the arms of the match of lines 157-192
is_cjk_sentence_end(ch) == ch \in {"u3002", "uFF01", "uFF1F", "uFF61"}
is_western_sentence_end(ch) == ch \in {".", "!", "?"}
is_newline(ch) == ch = "LF"
is_space(ch) == ch \in {"SP", "TAB"}
\* the bytes that may follow a western sentence end (lines 168-173)
is_following_byte(ch) == ch \in {"SP", "LF", "TAB", "CR"}

\* the end of the window taken without looking for a character boundary
snap_none(s, e) == e

\* `while safe_end > 0 && !text.is_char_boundary(safe_end)` (lines 138-140)
RECURSIVE snap_back(_, _)
snap_back(s, e) ==
    IF e > 0 /\ ~is_char_boundary(s, e) THEN snap_back(s, e - 1) ELSE e

\* safe_end (lines 137-140)
safe_end_of(s) == snap_back(s, Min(MAX_CHUNK_SIZE, str_len(s)))

NoCandidates == [cjk |-> None, western |-> None, newline |-> None, space |-> None]

\* one iteration of the reverse pass on the character n of the window that
\* ends at safe_end (lines 155-192)
scan_char(s, safe_end, n, best) ==
    LET ch == s[n]
        byte_pos == bytes_before(s, n)
    IN IF is_cjk_sentence_end(ch)
       THEN IF best.cjk = None THEN [best EXCEPT !.cjk = Some(byte_pos)] ELSE best
       ELSE IF is_western_sentence_end(ch)
       THEN IF /\ best.western = None
               /\ \/ byte_pos >= safe_end
                  \/ is_following_byte(s[n + 1])
            THEN [best EXCEPT !.western = Some(byte_pos)] ELSE best
       ELSE IF is_newline(ch)
       THEN IF best.newline = None THEN [best EXCEPT !.newline = Some(byte_pos)] ELSE best
       ELSE IF is_space(ch)
       THEN IF best.space = None THEN [best EXCEPT !.space = Some(byte_pos)] ELSE best
       ELSE best

\* the reverse pass from character n down, with its early exit (lines
\* 154-198)
RECURSIVE scan_back(_, _, _, _)
scan_back(s, safe_end, n, best) ==
    IF n = 0 THEN best
    ELSE LET b == scan_char(s, safe_end, n, best) IN
         IF b.cjk # None THEN b ELSE scan_back(s, safe_end, n - 1, b)

\* `.or(..).or(..).or(..).unwrap_or(safe_end)` with newlines before western
\* sentence ends
pick_newline_first(best, safe_end) ==
    IF best.cjk # None THEN best.cjk[1]
    ELSE IF best.newline # None THEN best.newline[1]
    ELSE IF best.western # None THEN best.western[1]
    ELSE IF best.space # None THEN best.space[1]
    ELSE safe_end

\* `.or(..).or(..).or(..).unwrap_or(safe_end)` (lines 201-205)
pick(best, safe_end) ==
    IF best.cjk # None THEN best.cjk[1]
    ELSE IF best.western # None THEN best.western[1]
    ELSE IF best.newline # None THEN best.newline[1]
    ELSE IF best.space # None THEN best.space[1]
    ELSE safe_end

\* what stands for a split position when the call panicked
Panicked == 0 - 1

\* find_split_point_single_pass; `text[..safe_end]` (line 154) panics off a
\* character boundary
find_split_point_single_pass(s) ==
    LET safe_end == safe_end_of(s) IN
    IF safe_end = 0
    THEN IF Len(s) > 0 THEN len_utf8(s[1]) ELSE 1
    ELSE IF ~is_char_boundary(s, safe_end) THEN Panicked
    ELSE pick(scan_back(s, safe_end, chars_before(s, safe_end), NoCandidates),
              safe_end)

\* what chunk_text gives: the chunks, or a panic with the chunks pushed so far
Chunked(pushed) == [panicked |-> FALSE, chunks |-> pushed]
Panic(pushed) == [panicked |-> TRUE, chunks |-> pushed]

\* &s[..b] and &s[b..], for b a character boundary of s (slicing off a
\* character boundary panics)
slice_to(s, b) == SubSeq(s, 1, chars_before(s, b))
slice_from(s, b) == SubSeq(s, chars_before(s, b) + 1, Len(s))

\* a loop that loses the character after each split point
RECURSIVE chunk_loop_skip(_, _)
chunk_loop_skip(remaining, pushed) ==
    IF remaining = <<>> THEN Chunked(pushed)
    ELSE IF str_len(remaining) <= MAX_CHUNK_SIZE THEN Chunked(Append(pushed, remaining))
    ELSE LET split_pos == find_split_point_single_pass(remaining) IN
         IF ~is_char_boundary(remaining, split_pos) THEN Panic(pushed)
         ELSE chunk_loop_skip(Tail(slice_from(remaining, split_pos)),
                              Append(pushed, slice_to(remaining, split_pos)))

\* the loop of chunk_text (lines 117-128)
RECURSIVE chunk_loop(_, _)
chunk_loop(remaining, pushed) ==
    IF remaining = <<>> THEN Chunked(pushed)
    ELSE IF str_len(remaining) <= MAX_CHUNK_SIZE THEN Chunked(Append(pushed, remaining))
    ELSE LET split_pos == find_split_point_single_pass(remaining) IN
         IF ~is_char_boundary(remaining, split_pos) THEN Panic(pushed)
         ELSE chunk_loop(slice_from(remaining, split_pos),
                         Append(pushed, slice_to(remaining, split_pos)))

\* a chunk_text whose first iteration splits at byte 0
chunk_text_zero_split(s) ==
    IF str_len(s) <= MAX_CHUNK_SIZE THEN Chunked(<<s>>)
    ELSE chunk_loop(s, <<slice_to(s, 0)>>)

\* chunk_text
chunk_text(s) ==
    IF str_len(s) <= MAX_CHUNK_SIZE THEN Chunked(<<s>>) ELSE chunk_loop(s, <<>>)

\* the texts tried
Texts == UNION {[1 .. n -> Alphabet] : n \in 0 .. MaxTextChars}

\* chunk_text(text) is called
ChunkText ==
    /\ chunk_out = None
    /\ chunk_out' = Some(chunk_text(chunk_in))
    /\ UNCHANGED <<now, cb, rl, chunk_in, gets, pres_in, pres_cfg, pres_out, abandoned, ev, cg>>
    /\ UNCHANGED <<callVars, dispatchVars, threadVars, historyVars>>
    /\ UNCHANGED <<limiterThreadVars, limiterHistoryVars, pipelineVars>>

---------------------------------------------------------------------------
(* src/src/preserver.rs: extraction of the spans that must not be
   translated, and their restoration.  A txt is a sequence of characters;
   a word that the regexes can only take whole, or a delimiter, counts as
   one character, and so does a placeholder, which starts and ends with
   U+FEFF. *)

\* the longest text tried, in characters
MaxPreserveChars == 5

\* a character of the input; a placeholder `\u{FEFF}cjk{type_str}{index}\u{FEFF}`
\* (lines 536, 637)
Lit(c) == <<c, 0>>
format_placeholder(type_str, index) == <<"FEFFcjk" \o type_str, index>>

\* U+0060
Backtick == Lit("U+0060")
WikiOpen == Lit("[[")
WikiClose == Lit("]]")
Equals2 == Lit("==")
Space == Lit(" ")
UrlWord == Lit("https://x")
TermWord == Lit("getUserData")
CjkWord == Lit("U+D55C")

\* the characters tried; the last is the literal text of a placeholder
PreserveAlphabet ==
    {Backtick, WikiOpen, WikiClose, Space, UrlWord, TermWord, CjkWord,
     format_placeholder("inline", 0)}

PreserveTexts == UNION {[1 .. n -> PreserveAlphabet] : n \in 0 .. MaxPreserveChars}

\* PreserveConfig (lines 473-482); use_nlp selects the detector of macOS
\* builds, which is not modelled: the regex detector is
PreserveConfig_default ==
    [wiki_markers |-> FALSE, highlight_markers |-> FALSE, english_terms |-> FALSE]
PreserveConfig_all ==
    [wiki_markers |-> TRUE, highlight_markers |-> TRUE, english_terms |-> TRUE]

\* segment_type_str
segment_type_str(segment_type) ==
    CASE segment_type = "CodeBlock"   -> "code"
      [] segment_type = "InlineCode"  -> "inline"
      [] segment_type = "Url"         -> "url"
      [] segment_type = "FilePath"    -> "path"
      [] segment_type = "NoTranslate" -> "notrans"
      [] segment_type = "EnglishTerm" -> "engterm"

\* the first position from i on where `what` stands, 0 when there is none
RECURSIVE find_char(_, _, _)
find_char(txt, what, i) ==
    IF i > Len(txt) THEN 0
    ELSE IF txt[i] = what THEN i
    ELSE find_char(txt, what, i + 1)

\* the first position from i on where three backticks start, 0 when none
RECURSIVE find_fence(_, _)
find_fence(txt, i) ==
    IF i + 2 > Len(txt) THEN 0
    ELSE IF txt[i] = Backtick /\ txt[i + 1] = Backtick /\ txt[i + 2] = Backtick
    THEN i
    ELSE find_fence(txt, i + 1)

\* the characters that carry on a match once it has started: [^\s] for a
\* URL, the letters of an identifier for a term
in_run(re, c) ==
    CASE re = "URL_RE" -> c # Space
      [] re = "ENGLISH_TERM_RE" -> c = TermWord

\* the last position of the run of such characters from i on
RECURSIVE run_end(_, _, _)
run_end(re, txt, i) ==
    IF i < Len(txt) /\ in_run(re, txt[i + 1]) THEN run_end(re, txt, i + 1) ELSE i

\* a delimiter, one character or more that are not `stop`, a delimiter:
\* `[^`]+`, \[\[([^\]]+)\]\], ==([^=]+)==
match_delimited(txt, i, open, close, stop) ==
    IF txt[i] = open /\ i < Len(txt) /\ txt[i + 1] # stop
    THEN find_char(txt, close, i + 2)
    ELSE 0

\* the position where the match of a regex that starts at i ends, 0 when
\* the regex does not match at i (lines 27-56)
match_at(re, txt, i) ==
    CASE re = "CODE_BLOCK_RE" ->
            IF find_fence(txt, i) = i
            THEN LET close == find_fence(txt, i + 3) IN
                 IF close = 0 THEN 0 ELSE close + 2
            ELSE 0
      [] re = "INLINE_CODE_RE" -> match_delimited(txt, i, Backtick, Backtick, Backtick)
      [] re = "WIKI_MARKER_RE" -> match_delimited(txt, i, WikiOpen, WikiClose, WikiClose)
      [] re = "HIGHLIGHT_MARKER_RE" -> match_delimited(txt, i, Equals2, Equals2, Equals2)
      [] re = "URL_RE" ->
            IF txt[i] = UrlWord
            THEN run_end(re, txt, i)
            ELSE 0
         \* FILE_PATH_RE needs a slash, which only the URLs, taken before, have
      [] re = "FILE_PATH_RE" -> 0
      [] re = "ENGLISH_TERM_RE" ->
            IF txt[i] = TermWord
            THEN run_end(re, txt, i)
            ELSE 0

\* a span left in the text as it stood, for the later passes to see
keep_original(placeholder, original) == original

\* what the closure of replace_all returns for a match (line 543)
closure_result(placeholder, original) == <<placeholder>>

\* the pass of a regex over a text (replace_with_placeholders, lines
\* 517-546): st is the text built so far, the segments and the index
RECURSIVE replace_from(_, _, _, _, _, _)
replace_from(txt, re, segment_type, use_capture_group, i, st) ==
    IF i > Len(txt) THEN st
    ELSE LET e == match_at(re, txt, i) IN
         IF e = 0
         THEN replace_from(txt, re, segment_type, use_capture_group, i + 1,
                           [st EXCEPT !.text = Append(@, txt[i])])
         ELSE LET original == IF use_capture_group
                              THEN SubSeq(txt, i + 1, e - 1)
                              ELSE SubSeq(txt, i, e)
                  placeholder == format_placeholder(segment_type_str(segment_type),
                                                    st.index)
              IN replace_from(txt, re, segment_type, use_capture_group, e + 1,
                     [text     |-> st.text \o closure_result(placeholder, original),
                      segments |-> Append(st.segments,
                                     [placeholder  |-> placeholder,
                                      original     |-> original,
                                      segment_type |-> segment_type]),
                      index    |-> st.index + 1])

\* replace_with_placeholders
replace_with_placeholders(st, re, segment_type, use_capture_group) ==
    replace_from(st.text, re, segment_type, use_capture_group, 1,
                 [st EXCEPT !.text = <<>>])

\* RegexTermDetector::detect (lines 75-86): the matches, in order; none
\* holds U+FEFF, so the filter keeps them all
RECURSIVE detect_from(_, _)
detect_from(txt, i) ==
    IF i > Len(txt) THEN <<>>
    ELSE LET e == match_at("ENGLISH_TERM_RE", txt, i) IN
         IF e = 0 THEN detect_from(txt, i + 1)
         ELSE <<[text |-> SubSeq(txt, i, e), start |-> i, end |-> e]>>
              \o detect_from(txt, e + 1)

\* the terms taken from the last to the first (lines 631-645)
RECURSIVE replace_terms(_, _, _)
replace_terms(st, terms, k) ==
    IF k = 0 THEN st
    ELSE LET term == terms[k]
             placeholder == format_placeholder("engterm", st.index)
         IN replace_terms(
                [text     |-> SubSeq(st.text, 1, term.start - 1)
                              \o <<placeholder>>
                              \o SubSeq(st.text, term.end + 1, Len(st.text)),
                 segments |-> Append(st.segments,
                                [placeholder  |-> placeholder,
                                 original     |-> term.text,
                                 segment_type |-> "EnglishTerm"]),
                 index    |-> st.index + 1],
                terms, k - 1)

\* the passes of extract_and_preserve_with_config, in its order (lines
\* 562-646); each works on what the pass before left
pass_code(st) == replace_with_placeholders(st, "CODE_BLOCK_RE", "CodeBlock", FALSE)
pass_inline(st) == replace_with_placeholders(st, "INLINE_CODE_RE", "InlineCode", FALSE)
pass_wiki(st, cfg) ==
    IF cfg.wiki_markers
    THEN replace_with_placeholders(st, "WIKI_MARKER_RE", "NoTranslate", TRUE)
    ELSE st
pass_highlight(st, cfg) ==
    IF cfg.highlight_markers
    THEN replace_with_placeholders(st, "HIGHLIGHT_MARKER_RE", "NoTranslate", TRUE)
    ELSE st
pass_url(st) == replace_with_placeholders(st, "URL_RE", "Url", FALSE)
pass_path(st) == replace_with_placeholders(st, "FILE_PATH_RE", "FilePath", FALSE)
terms_of(st, terms) == replace_terms(st, terms, Len(terms))
pass_terms(st, cfg) ==
    IF cfg.english_terms THEN terms_of(st, detect_from(st.text, 1)) ELSE st

\* PreserveResult (lines 648-651)
PreserveResult(st) == [text |-> st.text, segments |-> st.segments]

\* extract_and_preserve_with_config on the characters of a text (lines
\* 555-652)
preserver_extract(txt, cfg) ==
    PreserveResult(
        pass_terms(
            pass_path(
                pass_url(
                    pass_highlight(
                        pass_wiki(
                            pass_inline(
                                pass_code([text |-> txt, segments |-> <<>>, index |-> 0])),
                            cfg),
                        cfg))),
            cfg))

\* str::replace: every occurrence of the placeholder
RECURSIVE str_replace(_, _, _)
str_replace(txt, from, to) ==
    IF txt = <<>> THEN <<>>
    ELSE (IF Head(txt) = from THEN to ELSE <<Head(txt)>>)
         \o str_replace(Tail(txt), from, to)

\* `for segment in segments.iter().rev()` from the segment k down (lines
\* 659-661)
RECURSIVE restore_from(_, _, _)
restore_from(txt, segments, k) ==
    IF k = 0 THEN txt
    ELSE restore_from(str_replace(txt, segments[k].placeholder, segments[k].original),
                      segments, k - 1)

\* restore_preserved on the characters of a text (lines 655-663)
preserver_restore(txt, segments) == restore_from(txt, segments, Len(segments))

\* the extraction and the restoration made of it
extracted_and_restored(preserved) ==
    [text     |-> preserved.text,
     segments |-> preserved.segments,
     restored |-> preserver_restore(preserved.text, preserved.segments)]

\* a text is extracted and what was extracted is restored
Preserve ==
    /\ pres_out = None
    /\ pres_out' = Some(extracted_and_restored(preserver_extract(pres_in, pres_cfg)))
    /\ UNCHANGED <<now, cb, rl, gets, chunk_in, chunk_out, pres_in, pres_cfg, abandoned, ev, cg>>
    /\ UNCHANGED <<callVars, dispatchVars, threadVars, historyVars>>
    /\ UNCHANGED <<limiterThreadVars, limiterHistoryVars, pipelineVars>>

---------------------------------------------------------------------------
(* The clock *)

\* Time passes: the clock moves to its next tick.  A sleep ends at the first
\* tick at or after its deadline.
TickTargets == {((now \div TickMs) + 1) * TickMs}

\* The program reads the clock only against a timestamp it stored: the open
\* window of the breaker, the limiter's reservation, the deadline of a sleep,
\* a value or a clock reading a thread holds between two of its steps.
\* When none of them lies ahead, a later clock value changes no comparison,
\* and the tick is left out (behaviours are the same up to a shift in time).
TimeMatters ==
    \/ /\ cb.opened_at # 0
       /\ saturating_sub(current_timestamp_secs, cb.opened_at) < cb.reset_timeout_secs
    \/ rl.next_allowed_ms > now
    \/ \E c \in CallIds :
          pc[c] \in {"limiter_sleep", "backoff_sleep"} /\ wake_at[c] > now
    \/ \E t \in Threads : tpc[t] \in {"ar_clock", "ar_cas", "rf_cas"}
    \/ \E t \in Threads : tpc[t] \in {"wn_clock", "wn_next", "wn_cas"}
    \/ \E t \in Threads : tpc[t] = "wn_sleep" /\ t_wake[t] > now

ClockStep(limit) ==
    /\ TimeMatters
    /\ \E t \in TickTargets : t <= limit /\ now' = t
    /\ UNCHANGED <<cb, rl>>
    /\ UNCHANGED <<callVars, dispatchVars, threadVars, historyVars>>
    /\ UNCHANGED otherVars

Tick == ClockStep(MaxTime)
TickLimiter == ClockStep(MaxLimiterTime)
TickThreads == ClockStep(MaxThreadTime)

\* an entry of the store that a later clock value makes expire
CacheTimeMatters ==
    \E key \in DOMAIN cache.db : cache.db[key].timestamp >= current_timestamp_secs

\* time passes while the pipeline is suspended or between two invocations
TickPipeline ==
    /\ TimeMatters \/ CacheTimeMatters
    /\ \E t \in TickTargets : t <= MaxPipelineTime /\ now' = t
    /\ UNCHANGED <<cb, rl>>
    /\ UNCHANGED <<callVars, dispatchVars, threadVars, historyVars>>
    /\ UNCHANGED otherVars

---------------------------------------------------------------------------
Init ==
    /\ now = StartMs
    /\ cb = CircuitBreaker_with_params(config.circuit_breaker_threshold,
                                       config.circuit_breaker_reset_secs)
    /\ rl = RateLimiter_new
    /\ pc = [c \in CallIds |-> "idle"]
    /\ attempt = [c \in CallIds |-> 0]
    /\ wake_at = [c \in CallIds |-> 0]
    /\ text = [c \in CallIds |-> 0]
    /\ result = [c \in CallIds |-> NoResult]
    /\ last_error = [c \in CallIds |-> None]
    /\ chunks = <<>>
    /\ next_start = 1
    /\ results = <<>>
    /\ dstate = "idle"
    /\ ret = NoResult
    /\ tpc = [t \in Threads |-> "idle"]
    /\ t_opened_at = [t \in Threads |-> 0]
    /\ t_now = [t \in Threads |-> 0]
    /\ t_failures = [t \in Threads |-> 0]
    /\ fail_run = 0
    /\ budget = MaxFaults
    /\ closings = 0
    /\ last_trial = 0
    /\ closed_from = ""
    /\ overtook = FALSE
    /\ invocations = [c \in CallIds |-> 0]
    /\ last_reply = [c \in CallIds |-> None]
    /\ t_min_delay = [t \in Threads |-> 0]
    /\ t_current_next = [t \in Threads |-> 0]
    /\ t_current = [t \in Threads |-> 0]
    /\ t_new_delay = [t \in Threads |-> 0]
    /\ t_retry_after = [t \in Threads |-> None]
    /\ t_wake = [t \in Threads |-> 0]
    /\ panicked = FALSE
    /\ reserved = <<>>
    /\ last_op = NoOp
    /\ signal_run = [base |-> 0, k |-> 0, pure |-> TRUE, stored |-> 0, shrunk |-> 0]
    /\ successes = 0
    /\ pl = PipelineIdle(0)
    /\ gets = <<>>
    /\ chunk_in = <<>>
    /\ chunk_out = None
    /\ pres_in = <<>>
    /\ pres_cfg = PreserveConfig_default
    /\ pres_out = None
    /\ abandoned = NoneAbandoned
    /\ ev = EvictIdle
    /\ cg = NoSignal
    /\ cache = TranslationCache_new(FALSE)

Next ==
    \/ \E c \in 1 .. NumCalls : CallStart(c)
    \/ \E c \in 1 .. NumCalls : LimiterWake(c)
    \/ \E c \in 1 .. NumCalls : BackendOk(c)
    \/ \E c \in 1 .. NumCalls : \E e \in BackendErrors : BackendErr(c, e)
    \/ \E c \in 1 .. NumCalls : BackoffWake(c)
    \/ \E c \in 1 .. NumCalls : CallReturn(c)
    \/ Tick

Spec == Init /\ [][Next]_vars

InitDispatch ==
    /\ now = StartMs
    /\ cb = CircuitBreaker_with_params(config.circuit_breaker_threshold,
                                       config.circuit_breaker_reset_secs)
    /\ rl = RateLimiter_new
    /\ pc = [c \in CallIds |-> "idle"]
    /\ attempt = [c \in CallIds |-> 0]
    /\ wake_at = [c \in CallIds |-> 0]
    /\ text = [c \in CallIds |-> 0]
    /\ result = [c \in CallIds |-> NoResult]
    /\ last_error = [c \in CallIds |-> None]
    /\ chunks \in ChunkLists
    /\ next_start = 1
    /\ results = <<>>
    /\ dstate = "running"
    /\ ret = NoResult
    /\ tpc = [t \in Threads |-> "idle"]
    /\ t_opened_at = [t \in Threads |-> 0]
    /\ t_now = [t \in Threads |-> 0]
    /\ t_failures = [t \in Threads |-> 0]
    /\ fail_run = 0
    /\ budget = MaxDispatchFaults
    /\ closings = 0
    /\ last_trial = 0
    /\ closed_from = ""
    /\ overtook = FALSE
    /\ invocations = [c \in CallIds |-> 0]
    /\ last_reply = [c \in CallIds |-> None]
    /\ t_min_delay = [t \in Threads |-> 0]
    /\ t_current_next = [t \in Threads |-> 0]
    /\ t_current = [t \in Threads |-> 0]
    /\ t_new_delay = [t \in Threads |-> 0]
    /\ t_retry_after = [t \in Threads |-> None]
    /\ t_wake = [t \in Threads |-> 0]
    /\ panicked = FALSE
    /\ reserved = <<>>
    /\ last_op = NoOp
    /\ signal_run = [base |-> 0, k |-> 0, pure |-> TRUE, stored |-> 0, shrunk |-> 0]
    /\ successes = 0
    /\ pl = PipelineIdle(0)
    /\ gets = <<>>
    /\ chunk_in = <<>>
    /\ chunk_out = None
    /\ pres_in = <<>>
    /\ pres_cfg = PreserveConfig_default
    /\ pres_out = None
    /\ abandoned = NoneAbandoned
    /\ ev = EvictIdle
    /\ cg = NoSignal
    /\ cache = TranslationCache_new(FALSE)

\* The futures of one dispatch run on one task: a future is polled only
\* after Buffered has filled its queue.
NextDispatch ==
    \/ DispatchStart
    \/ \E c \in CallIds : ~CanStart /\ LimiterWake(c)
    \/ \E c \in CallIds : ~CanStart /\ BackendOk(c)
    \/ \E c \in CallIds : \E e \in BackendErrors : ~CanStart /\ BackendErr(c, e)
    \/ \E c \in CallIds : ~CanStart /\ BackoffWake(c)
    \/ DispatchYield
    \/ DispatchReturn
    \/ Tick

SpecDispatch == InitDispatch /\ [][NextDispatch]_vars

\* dispatches in which two chunk calls can fail: fewer chunks, two error
\* replies of the backend
MaxCollectChunks == 3
MaxCollectFaults == 2
CollectLists == { [i \in 1 .. n |-> 100 + i] : n \in 2 .. MaxCollectChunks }

InitCollect ==
    /\ now = StartMs
    /\ cb = CircuitBreaker_with_params(config.circuit_breaker_threshold,
                                       config.circuit_breaker_reset_secs)
    /\ rl = RateLimiter_new
    /\ pc = [c \in CallIds |-> "idle"]
    /\ attempt = [c \in CallIds |-> 0]
    /\ wake_at = [c \in CallIds |-> 0]
    /\ text = [c \in CallIds |-> 0]
    /\ result = [c \in CallIds |-> NoResult]
    /\ last_error = [c \in CallIds |-> None]
    /\ chunks \in CollectLists
    /\ next_start = 1
    /\ results = <<>>
    /\ dstate = "running"
    /\ ret = NoResult
    /\ tpc = [t \in Threads |-> "idle"]
    /\ t_opened_at = [t \in Threads |-> 0]
    /\ t_now = [t \in Threads |-> 0]
    /\ t_failures = [t \in Threads |-> 0]
    /\ fail_run = 0
    /\ budget = MaxCollectFaults
    /\ closings = 0
    /\ last_trial = 0
    /\ closed_from = ""
    /\ overtook = FALSE
    /\ invocations = [c \in CallIds |-> 0]
    /\ last_reply = [c \in CallIds |-> None]
    /\ t_min_delay = [t \in Threads |-> 0]
    /\ t_current_next = [t \in Threads |-> 0]
    /\ t_current = [t \in Threads |-> 0]
    /\ t_new_delay = [t \in Threads |-> 0]
    /\ t_retry_after = [t \in Threads |-> None]
    /\ t_wake = [t \in Threads |-> 0]
    /\ panicked = FALSE
    /\ reserved = <<>>
    /\ last_op = NoOp
    /\ signal_run = [base |-> 0, k |-> 0, pure |-> TRUE, stored |-> 0, shrunk |-> 0]
    /\ successes = 0
    /\ pl = PipelineIdle(0)
    /\ gets = <<>>
    /\ chunk_in = <<>>
    /\ chunk_out = None
    /\ pres_in = <<>>
    /\ pres_cfg = PreserveConfig_default
    /\ pres_out = None
    /\ abandoned = NoneAbandoned
    /\ ev = EvictIdle
    /\ cg = NoSignal
    /\ cache = TranslationCache_new(FALSE)

SpecCollect == InitCollect /\ [][NextDispatch]_vars

InitThreads ==
    /\ now = StartMs
    /\ cb = CircuitBreaker_with_params(config.circuit_breaker_threshold,
                                       config.circuit_breaker_reset_secs)
    /\ rl = RateLimiter_new
    /\ pc = [c \in CallIds |-> "idle"]
    /\ attempt = [c \in CallIds |-> 0]
    /\ wake_at = [c \in CallIds |-> 0]
    /\ text = [c \in CallIds |-> 0]
    /\ result = [c \in CallIds |-> NoResult]
    /\ last_error = [c \in CallIds |-> None]
    /\ chunks = <<>>
    /\ next_start = 1
    /\ results = <<>>
    /\ dstate = "idle"
    /\ ret = NoResult
    /\ tpc = [t \in Threads |-> "idle"]
    /\ t_opened_at = [t \in Threads |-> 0]
    /\ t_now = [t \in Threads |-> 0]
    /\ t_failures = [t \in Threads |-> 0]
    /\ fail_run = 0
    /\ budget = MaxThreadFaults
    /\ closings = 0
    /\ last_trial = 0
    /\ closed_from = ""
    /\ overtook = FALSE
    /\ invocations = [c \in CallIds |-> 0]
    /\ last_reply = [c \in CallIds |-> None]
    /\ t_min_delay = [t \in Threads |-> 0]
    /\ t_current_next = [t \in Threads |-> 0]
    /\ t_current = [t \in Threads |-> 0]
    /\ t_new_delay = [t \in Threads |-> 0]
    /\ t_retry_after = [t \in Threads |-> None]
    /\ t_wake = [t \in Threads |-> 0]
    /\ panicked = FALSE
    /\ reserved = <<>>
    /\ last_op = NoOp
    /\ signal_run = [base |-> 0, k |-> 0, pure |-> TRUE, stored |-> 0, shrunk |-> 0]
    /\ successes = 0
    /\ pl = PipelineIdle(0)
    /\ gets = <<>>
    /\ chunk_in = <<>>
    /\ chunk_out = None
    /\ pres_in = <<>>
    /\ pres_cfg = PreserveConfig_default
    /\ pres_out = None
    /\ abandoned = NoneAbandoned
    /\ ev = EvictIdle
    /\ cg = NoSignal
    /\ cache = TranslationCache_new(FALSE)

NextThreads ==
    \/ \E t \in Threads : AR_load(t)
    \/ \E t \in Threads : AR_clock(t)
    \/ \E t \in Threads : AR_cas(t)
    \/ \E t \in Threads : RS_load(t)
    \/ \E t \in Threads : RS_cas(t)
    \/ \E t \in Threads : RS_inc(t)
    \/ \E t \in Threads : RS_store(t)
    \/ \E t \in Threads : RF_total(t)
    \/ \E t \in Threads : RF_count(t)
    \/ \E t \in Threads : RF_clock(t)
    \/ \E t \in Threads : RF_cas(t)
    \/ TickThreads

SpecThreads == InitThreads /\ [][NextThreads]_vars

---------------------------------------------------------------------------
(* src/src/resilience.rs: CircuitBreaker::reset, called by a thread while
   others run the methods above, one atomic memory operation per step. *)

\* reset: failure_count.store(0) (line 173)
RST_count(t) ==
    /\ tpc[t] = "idle"
    /\ cb' = [cb EXCEPT !.failure_count = 0]
    /\ tpc' = [tpc EXCEPT ![t] = "rst_open"]
    /\ UNCHANGED <<now, rl, t_opened_at, t_now, t_failures>>
    /\ UNCHANGED <<callVars, dispatchVars, historyVars>>
    /\ UNCHANGED otherVars

\* reset: opened_at.store(0) (line 174), and the return
RST_open(t) ==
    /\ tpc[t] = "rst_open"
    /\ cb' = [cb EXCEPT !.opened_at = 0]
    /\ tpc' = [tpc EXCEPT ![t] = "idle"]
    /\ last_trial' = 0
    /\ UNCHANGED <<now, rl, t_opened_at, t_now, t_failures>>
    /\ UNCHANGED <<fail_run, budget, closings, closed_from, overtook>>
    /\ UNCHANGED <<invocations, last_reply>>
    /\ UNCHANGED <<callVars, dispatchVars>>
    /\ UNCHANGED otherVars

NextReset ==
    \/ NextThreads
    \/ \E t \in Threads : RST_count(t)
    \/ \E t \in Threads : RST_open(t)

SpecReset == InitThreads /\ [][NextReset]_vars

NextLimiter ==
    \/ \E retry_after \in SignalArgs : LimiterSignal(retry_after)
    \/ LimiterSuccess
    \/ LimiterReset

SpecLimiter == Init /\ [][NextLimiter]_vars

\* threads calling record_success() and record_rate_limit()
NextLimiterThreads ==
    \/ \E t \in LimiterThreads : LS_load(t)
    \/ \E t \in LimiterThreads : LS_cas(t)
    \/ \E t \in LimiterThreads : \E retry_after \in RetryAfterValues : LR_hits(t, retry_after)
    \/ \E t \in LimiterThreads : LR_load(t)
    \/ \E t \in LimiterThreads : LR_store(t)

SpecLimiterThreads == Init /\ [][NextLimiterThreads]_vars

\* the limiter after its first congestion signal: a delay of 200 ms
\* (record_rate_limit(None)) or of 1000 ms (record_rate_limit(Some(1)))
SignalledLimiters ==
    { rl_record_rate_limit(RateLimiter_new, retry_after) :
        retry_after \in RetryAfterValues }

InitWaiters ==
    /\ now = StartMs
    /\ cb = CircuitBreaker_with_params(config.circuit_breaker_threshold,
                                       config.circuit_breaker_reset_secs)
    /\ rl \in SignalledLimiters
    /\ pc = [c \in CallIds |-> "idle"]
    /\ attempt = [c \in CallIds |-> 0]
    /\ wake_at = [c \in CallIds |-> 0]
    /\ text = [c \in CallIds |-> 0]
    /\ result = [c \in CallIds |-> NoResult]
    /\ last_error = [c \in CallIds |-> None]
    /\ chunks = <<>>
    /\ next_start = 1
    /\ results = <<>>
    /\ dstate = "idle"
    /\ ret = NoResult
    /\ tpc = [t \in Threads |-> "idle"]
    /\ t_opened_at = [t \in Threads |-> 0]
    /\ t_now = [t \in Threads |-> 0]
    /\ t_failures = [t \in Threads |-> 0]
    /\ fail_run = 0
    /\ budget = MaxFaults
    /\ closings = 0
    /\ last_trial = 0
    /\ closed_from = ""
    /\ overtook = FALSE
    /\ invocations = [c \in CallIds |-> 0]
    /\ last_reply = [c \in CallIds |-> None]
    /\ t_min_delay = [t \in Threads |-> 0]
    /\ t_current_next = [t \in Threads |-> 0]
    /\ t_current = [t \in Threads |-> 0]
    /\ t_new_delay = [t \in Threads |-> 0]
    /\ t_retry_after = [t \in Threads |-> None]
    /\ t_wake = [t \in Threads |-> 0]
    /\ panicked = FALSE
    /\ reserved = <<>>
    /\ last_op = NoOp
    /\ signal_run = [base |-> 0, k |-> 0, pure |-> TRUE, stored |-> 0, shrunk |-> 0]
    /\ successes = 0
    /\ pl = PipelineIdle(0)
    /\ gets = <<>>
    /\ chunk_in = <<>>
    /\ chunk_out = None
    /\ pres_in = <<>>
    /\ pres_cfg = PreserveConfig_default
    /\ pres_out = None
    /\ abandoned = NoneAbandoned
    /\ ev = EvictIdle
    /\ cg = NoSignal
    /\ cache = TranslationCache_new(FALSE)

\* threads calling wait_if_needed() while the delay stays as it is
NextWaiters ==
    \/ \E t \in LimiterThreads : WN_load(t)
    \/ \E t \in LimiterThreads : WN_clock(t)
    \/ \E t \in LimiterThreads : WN_next(t)
    \/ \E t \in LimiterThreads : WN_cas(t)
    \/ \E t \in LimiterThreads : WN_wake(t)
    \/ TickLimiter

SpecWaiters == InitWaiters /\ [][NextWaiters]_vars

\* the pipeline, invoked again and again by one caller; the process is the
\* build with the "cache" feature or the one without
InitPipeline ==
    /\ now = StartMs
    /\ cb = CircuitBreaker_with_params(config.circuit_breaker_threshold,
                                       config.circuit_breaker_reset_secs)
    /\ rl = RateLimiter_new
    /\ pc = [c \in CallIds |-> "idle"]
    /\ attempt = [c \in CallIds |-> 0]
    /\ wake_at = [c \in CallIds |-> 0]
    /\ text = [c \in CallIds |-> <<>>]
    /\ result = [c \in CallIds |-> NoResult]
    /\ last_error = [c \in CallIds |-> None]
    /\ chunks = <<>>
    /\ next_start = 1
    /\ results = <<>>
    /\ dstate = "idle"
    /\ ret = NoResult
    /\ tpc = [t \in Threads |-> "idle"]
    /\ t_opened_at = [t \in Threads |-> 0]
    /\ t_now = [t \in Threads |-> 0]
    /\ t_failures = [t \in Threads |-> 0]
    /\ fail_run = 0
    /\ budget = MaxFaults
    /\ closings = 0
    /\ last_trial = 0
    /\ closed_from = ""
    /\ overtook = FALSE
    /\ invocations = [c \in CallIds |-> 0]
    /\ last_reply = [c \in CallIds |-> None]
    /\ t_min_delay = [t \in Threads |-> 0]
    /\ t_current_next = [t \in Threads |-> 0]
    /\ t_current = [t \in Threads |-> 0]
    /\ t_new_delay = [t \in Threads |-> 0]
    /\ t_retry_after = [t \in Threads |-> None]
    /\ t_wake = [t \in Threads |-> 0]
    /\ panicked = FALSE
    /\ reserved = <<>>
    /\ last_op = NoOp
    /\ signal_run = [base |-> 0, k |-> 0, pure |-> TRUE, stored |-> 0, shrunk |-> 0]
    /\ successes = 0
    /\ pl = PipelineIdle(0)
    /\ gets = <<>>
    /\ chunk_in = <<>>
    /\ chunk_out = None
    /\ pres_in = <<>>
    /\ pres_cfg = PreserveConfig_default
    /\ pres_out = None
    /\ abandoned = NoneAbandoned
    /\ ev = EvictIdle
    /\ cg = NoSignal
    /\ cache \in {TranslationCache_new(TRUE)} \cup
                 {TranslationCache_open(FALSE, db) : db \in InitialStores}

NextPipeline ==
    \/ \E t \in PipelineInputs : \E cfg \in PipelineConfigs :
         \E use_cache \in BOOLEAN : \E open_ok \in BOOLEAN :
            PipelineCall(t, cfg, use_cache, open_ok)
    \/ LimiterWake(1)
    \/ BackendOk(1)
    \/ \E e \in PipelineErrors : BackendErr(1, e)
    \/ BackoffWake(1)
    \/ \E inserted \in BOOLEAN : PipelineResume(inserted)
    \/ PipelineReturn
    \/ TickPipeline

SpecPipeline == InitPipeline /\ [][NextPipeline]_vars

\* two texts that differ in the content of a preserved span only, "zh" and
\* one with another original in the place of its placeholder, and a text
\* with another body
ShareInputs ==
    { [id |-> "zh",    body |-> "zh", chinese |-> 4, japanese |-> 0, korean |-> 0, total |-> 4],
      [id |-> "zh_b",  body |-> "zh", chinese |-> 4, japanese |-> 0, korean |-> 0, total |-> 4],
      [id |-> "zh_c",  body |-> "zh_c", chinese |-> 4, japanese |-> 0, korean |-> 0, total |-> 4] }
ShareConfigs ==
    { DefaultConfig, [DefaultConfig EXCEPT !.normalize_whitespace = TRUE] }

NextShare ==
    \/ \E t \in ShareInputs : \E cfg \in ShareConfigs :
         \E use_cache \in BOOLEAN : \E open_ok \in BOOLEAN :
            PipelineCall(t, cfg, use_cache, open_ok)
    \/ LimiterWake(1)
    \/ BackendOk(1)
    \/ \E e \in PipelineErrors : BackendErr(1, e)
    \/ BackoffWake(1)
    \/ \E inserted \in BOOLEAN : PipelineResume(inserted)
    \/ PipelineReturn
    \/ TickPipeline

SpecShare == InitPipeline /\ [][NextShare]_vars

---------------------------------------------------------------------------
(* src/src/cache.rs: TranslationCache::get and put called one by one on the
   store, at chosen instants *)

\* calls of get and of put in one behaviour
MaxGets == 3
MaxPuts == 2
\* CacheConfig.ttl_days of the instance that get is called on
CacheTtlDays == {0, 1}
\* the clock of SpecCache stops after MaxCacheDays days
MaxCacheDays == 2
MaxCacheTime == MaxCacheDays * 86400 * 1000
\* seconds around an instant that the clock is set to
Around == {0 - 1, 0, 1}
CacheKeys == {"k1", "k2"}

cacheFrame ==
    <<cb, rl, callVars, dispatchVars, threadVars, historyVars,
      limiterThreadVars, limiterHistoryVars, pl, chunk_in, chunk_out,
      pres_in, pres_cfg, pres_out, abandoned, ev, cg>>

\* c.put(key, &entry) with `timestamp: Utc::now().timestamp()`
CachePut(key) ==
    /\ cache.inserts < MaxPuts
    /\ now <= MaxPipelineTime
    /\ \E victims \in Evictions(DOMAIN cache.db \cup {key}) :
       \E inserted \in BOOLEAN :
          cache' = cache_put(cache, key,
                             [ translated |-> Translate(key),
                               timestamp |-> current_timestamp_secs,
                               source_lang |-> "zh-TW", target_lang |-> "en" ],
                             victims, inserted)
    /\ UNCHANGED <<now, gets>>
    /\ UNCHANGED cacheFrame

\* c.get(key) on an instance opened with ttl_days
CacheGet(key, ttl_days) ==
    LET cfg == [DefaultConfig EXCEPT !.ttl_days = ttl_days]
        r == cache_get(cache, cfg, key, current_timestamp_secs)
    IN
    /\ Len(gets) < MaxGets
    /\ cache' = r.cache
    /\ gets' = Append(gets,
                 [ key |-> key, at |-> current_timestamp_secs,
                   ttl |-> ttl_secs(cfg),
                   stored |-> IF key \in DOMAIN cache.db
                              THEN Some(cache.db[key].timestamp) ELSE None,
                   returned |-> r.entry ])
    /\ UNCHANGED now
    /\ UNCHANGED cacheFrame

\* the instants around the expiry of a stored entry under some TTL
ExpiryInstants ==
    { (cache.db[key].timestamp + ttl_days * 86400 + d) * 1000 :
        key \in DOMAIN cache.db, ttl_days \in CacheTtlDays, d \in Around }

\* time passes, to the next second or to an instant around an expiry
CacheClock ==
    /\ \E t \in ExpiryInstants \cup {now + 1000} :
          /\ t > now
          /\ t <= MaxCacheTime
          /\ t = now + 1000 => now < MaxPipelineTime
          /\ now' = t
    /\ UNCHANGED <<cache, gets>>
    /\ UNCHANGED cacheFrame

NextCache ==
    \/ \E key \in CacheKeys : CachePut(key)
    \/ \E key \in CacheKeys : \E ttl_days \in CacheTtlDays : CacheGet(key, ttl_days)
    \/ CacheClock

SpecCache == Init /\ [][NextCache]_vars

\* chunk_text called on each of the texts
InitChunker ==
    /\ now = StartMs
    /\ cb = CircuitBreaker_with_params(config.circuit_breaker_threshold,
                                       config.circuit_breaker_reset_secs)
    /\ rl = RateLimiter_new
    /\ pc = [c \in CallIds |-> "idle"]
    /\ attempt = [c \in CallIds |-> 0]
    /\ wake_at = [c \in CallIds |-> 0]
    /\ text = [c \in CallIds |-> 0]
    /\ result = [c \in CallIds |-> NoResult]
    /\ last_error = [c \in CallIds |-> None]
    /\ chunks = <<>>
    /\ next_start = 1
    /\ results = <<>>
    /\ dstate = "idle"
    /\ ret = NoResult
    /\ tpc = [t \in Threads |-> "idle"]
    /\ t_opened_at = [t \in Threads |-> 0]
    /\ t_now = [t \in Threads |-> 0]
    /\ t_failures = [t \in Threads |-> 0]
    /\ fail_run = 0
    /\ budget = MaxFaults
    /\ closings = 0
    /\ last_trial = 0
    /\ closed_from = ""
    /\ overtook = FALSE
    /\ invocations = [c \in CallIds |-> 0]
    /\ last_reply = [c \in CallIds |-> None]
    /\ t_min_delay = [t \in Threads |-> 0]
    /\ t_current_next = [t \in Threads |-> 0]
    /\ t_current = [t \in Threads |-> 0]
    /\ t_new_delay = [t \in Threads |-> 0]
    /\ t_retry_after = [t \in Threads |-> None]
    /\ t_wake = [t \in Threads |-> 0]
    /\ panicked = FALSE
    /\ reserved = <<>>
    /\ last_op = NoOp
    /\ signal_run = [base |-> 0, k |-> 0, pure |-> TRUE, stored |-> 0, shrunk |-> 0]
    /\ successes = 0
    /\ pl = PipelineIdle(0)
    /\ gets = <<>>
    /\ chunk_in \in Texts
    /\ chunk_out = None
    /\ pres_in = <<>>
    /\ pres_cfg = PreserveConfig_default
    /\ pres_out = None
    /\ abandoned = NoneAbandoned
    /\ ev = EvictIdle
    /\ cg = NoSignal
    /\ cache = TranslationCache_new(FALSE)

NextChunker == ChunkText

SpecChunker == InitChunker /\ [][NextChunker]_vars

\* each of the texts extracted and restored, under each configuration
InitPreserver ==
    /\ now = StartMs
    /\ cb = CircuitBreaker_with_params(config.circuit_breaker_threshold,
                                       config.circuit_breaker_reset_secs)
    /\ rl = RateLimiter_new
    /\ pc = [c \in CallIds |-> "idle"]
    /\ attempt = [c \in CallIds |-> 0]
    /\ wake_at = [c \in CallIds |-> 0]
    /\ text = [c \in CallIds |-> 0]
    /\ result = [c \in CallIds |-> NoResult]
    /\ last_error = [c \in CallIds |-> None]
    /\ chunks = <<>>
    /\ next_start = 1
    /\ results = <<>>
    /\ dstate = "idle"
    /\ ret = NoResult
    /\ tpc = [t \in Threads |-> "idle"]
    /\ t_opened_at = [t \in Threads |-> 0]
    /\ t_now = [t \in Threads |-> 0]
    /\ t_failures = [t \in Threads |-> 0]
    /\ fail_run = 0
    /\ budget = MaxFaults
    /\ closings = 0
    /\ last_trial = 0
    /\ closed_from = ""
    /\ overtook = FALSE
    /\ invocations = [c \in CallIds |-> 0]
    /\ last_reply = [c \in CallIds |-> None]
    /\ t_min_delay = [t \in Threads |-> 0]
    /\ t_current_next = [t \in Threads |-> 0]
    /\ t_current = [t \in Threads |-> 0]
    /\ t_new_delay = [t \in Threads |-> 0]
    /\ t_retry_after = [t \in Threads |-> None]
    /\ t_wake = [t \in Threads |-> 0]
    /\ panicked = FALSE
    /\ reserved = <<>>
    /\ last_op = NoOp
    /\ signal_run = [base |-> 0, k |-> 0, pure |-> TRUE, stored |-> 0, shrunk |-> 0]
    /\ successes = 0
    /\ pl = PipelineIdle(0)
    /\ gets = <<>>
    /\ chunk_in = <<>>
    /\ chunk_out = None
    /\ pres_in \in PreserveTexts
    /\ pres_cfg \in {PreserveConfig_default, PreserveConfig_all}
    /\ pres_out = None
    /\ abandoned = NoneAbandoned
    /\ ev = EvictIdle
    /\ cg = NoSignal
    /\ cache = TranslationCache_new(FALSE)

NextPreserver == Preserve

SpecPreserver == InitPreserver /\ [][NextPreserver]_vars

\* successes keep arriving
SpecLimiterFair == SpecLimiter /\ WF_vars(LimiterSuccess)

---------------------------------------------------------------------------
(* A call dropped while it is suspended: the future of
   google_translate_with_retry_config is dropped at one of its await points
   (translator.rs 258, 260, 290) and runs no more code; nothing in
   src/src/resilience.rs acts on a drop. *)

\* how many calls may be dropped
MaxAbandons == 2
\* the clock of the runs with dropped calls
MaxAbandonSecs == 6
MaxAbandonTime == MaxAbandonSecs * 1000

\* what the backend answers in these runs
AbandonErrors == {Err_AuthError, Err_RateLimited(None)}

\* a caller invokes google_translate_with_retry while no other call runs
SeqStart(c) ==
    /\ \A d \in CallIds : pc[d] = "idle"
    /\ CallStart(c)

\* the call c is dropped while it sleeps or waits for the backend; it was
\* admitted as a trial if the breaker is not Closed, as no other call ran
Abandon(c) ==
    /\ pc[c] \in {"limiter_sleep", "backend", "backoff_sleep"}
    /\ abandoned.n < MaxAbandons
    /\ pc' = [pc EXCEPT ![c] = "idle"]
    /\ result' = [result EXCEPT ![c] = NoResult]
    /\ attempt' = [attempt EXCEPT ![c] = 0]
    /\ last_error' = [last_error EXCEPT ![c] = None]
    /\ invocations' = [invocations EXCEPT ![c] = 0]
    /\ last_reply' = [last_reply EXCEPT ![c] = None]
    /\ abandoned' = [n |-> abandoned.n + 1,
                     trial_at |-> IF cb.opened_at # 0 THEN last_trial
                                  ELSE abandoned.trial_at]
    /\ UNCHANGED <<now, cb, rl, wake_at, text>>
    /\ UNCHANGED <<fail_run, budget, closings, last_trial, closed_from, overtook>>
    /\ UNCHANGED <<dispatchVars, threadVars>>
    /\ UNCHANGED <<limiterThreadVars, limiterHistoryVars, pipelineVars>>
    /\ UNCHANGED <<gets, chunk_in, chunk_out, pres_in, pres_cfg, pres_out, ev, cg>>

TickAbandon == ClockStep(MaxAbandonTime)

NextAbandon ==
    \/ \E c \in 1 .. NumCalls : SeqStart(c)
    \/ \E c \in 1 .. NumCalls : LimiterWake(c)
    \/ \E c \in 1 .. NumCalls : BackendOk(c)
    \/ \E c \in 1 .. NumCalls : \E e \in AbandonErrors : BackendErr(c, e)
    \/ \E c \in 1 .. NumCalls : BackoffWake(c)
    \/ \E c \in 1 .. NumCalls : CallReturn(c)
    \/ \E c \in 1 .. NumCalls : Abandon(c)
    \/ TickAbandon

SpecAbandon == Init /\ [][NextAbandon]_vars

---------------------------------------------------------------------------
(* src/src/cache.rs: TranslationCache::enforce_size_limit, one round of
   its loop per step.  The size on disk that sled reports, the items its
   iterator yields (Ok or Err) and the outcome of each db.remove (dropped:
   `let _ =`) are the store's to decide. *)

\* the entries of the largest store tried
MaxEntries == 9

\* const MAX_EVICTION_ROUNDS (line 85)
MAX_EVICTION_ROUNDS == 10

\* a loop over db.iter() without its break
removed_count_all(entries_to_remove, oks) == oks

\* `removed` once the loop over db.iter() is left (lines 247-255): an item
\* that is Ok is counted until entries_to_remove are
removed_count(entries_to_remove, oks) == Min(entries_to_remove, oks)

\* enforce_size_limit is called on a store of n entries
EvictCall ==
    /\ ev.pc \in {"idle", "returned"}
    /\ \E n \in 0 .. MaxEntries :
          ev' = [EvictIdle EXCEPT !.pc = "round", !.len = n, !.before = n]
    /\ UNCHANGED <<now, cb, rl, gets, chunk_in, chunk_out, pres_in, pres_cfg,
                   pres_out, abandoned, cg>>
    /\ UNCHANGED <<callVars, dispatchVars, threadVars, historyVars>>
    /\ UNCHANGED <<limiterThreadVars, limiterHistoryVars, pipelineVars>>

\* the end of a round, or of the loop when it was the last round
AfterRound(e) ==
    IF e.removed = 0 THEN [e EXCEPT !.pc = "returned", !.why = "removed nothing"]
    ELSE IF e.round = MAX_EVICTION_ROUNDS
    THEN [e EXCEPT !.pc = "returned", !.why = "rounds"]
    ELSE e

\* one iteration of `for _round in 0..MAX_EVICTION_ROUNDS` (lines 236-262):
\* `over`: size_on_disk() exceeds max_bytes; `oks`: the items of db.iter()
\* that are Ok; `gone`: the removals of the round that succeeded
EvictRound ==
    /\ ev.pc = "round"
    /\ \E over \in BOOLEAN :
          IF ~over
          THEN ev' = [ev EXCEPT !.pc = "returned", !.over = FALSE, !.why = "within bound"]
          ELSE IF ev.len = 0
          THEN ev' = [ev EXCEPT !.pc = "returned", !.over = TRUE, !.why = "empty"]
          ELSE \E oks \in 0 .. ev.len :
                 LET entries_to_remove == Max(1, ev.len \div 4)
                     removed == removed_count(entries_to_remove, oks)
                 IN \E gone \in 0 .. removed :
                       ev' = AfterRound([ev EXCEPT !.round = @ + 1,
                                                   !.over = TRUE,
                                                   !.before = ev.len,
                                                   !.target = entries_to_remove,
                                                   !.removed = removed,
                                                   !.len = ev.len - gone])
    /\ UNCHANGED <<now, cb, rl, gets, chunk_in, chunk_out, pres_in, pres_cfg,
                   pres_out, abandoned, cg>>
    /\ UNCHANGED <<callVars, dispatchVars, threadVars, historyVars>>
    /\ UNCHANGED <<limiterThreadVars, limiterHistoryVars, pipelineVars>>

NextEvict ==
    \/ EvictCall
    \/ EvictRound

SpecEvict == Init /\ [][NextEvict]_vars

---------------------------------------------------------------------------
(* src/src/translator.rs: google_translate_with_retry_config called with a
   policy of no attempts (config.max_retries = 0): `for attempt in 0..0`
   runs no iteration and the code after the loop is reached at once. *)

\* a breaker that is told nothing by a call that made no attempt
exhausted_silent(b, t) == b

\* `cb.record_failure()` after the loop (line 296)
exhausted(b, t) == cb_record_failure(b, t)

\* the error returned after the loop: last_error is None (line 297)
MaxRetriesExceeded == Err_Translation

\* a caller invokes google_translate_with_retry_config with max_retries = 0;
\* the budget of failures bounds these calls as it bounds the error replies
ZeroStart(c) ==
    /\ pc[c] = "idle"
    /\ text' = [text EXCEPT ![c] = c]
    /\ last_error' = [last_error EXCEPT ![c] = None]
    /\ LET ar == cb_allow_request(cb, current_timestamp_secs) IN
       IF ~ar.ok
       THEN /\ Rejected(c)
            /\ fail_run' = fail_run
            /\ budget' = budget
       ELSE /\ budget > 0
            /\ budget' = budget - 1
            /\ cb' = exhausted(ar.cb, current_timestamp_secs)
            /\ rl' = rl
            /\ pc' = [pc EXCEPT ![c] = "done"]
            /\ result' = [result EXCEPT ![c] = Err(MaxRetriesExceeded)]
            /\ fail_run' = fail_run + 1
            /\ UNCHANGED <<attempt, wake_at, invocations>>
    /\ last_trial' = IF cb_allow_request(cb, current_timestamp_secs).cb.opened_at
                          # cb.opened_at
                     THEN current_timestamp_secs ELSE last_trial
    /\ UNCHANGED <<closings, closed_from, overtook, last_reply>>
    /\ UNCHANGED <<now>>
    /\ UNCHANGED <<dispatchVars, threadVars>>
    /\ UNCHANGED otherVars

\* what the backend answers in these runs
PolicyErrors == {Err_AuthError, Err_RetryableHttp}

NextPolicy ==
    \/ \E c \in 1 .. NumCalls : CallStart(c)
    \/ \E c \in 1 .. NumCalls : ZeroStart(c)
    \/ \E c \in 1 .. NumCalls : LimiterWake(c)
    \/ \E c \in 1 .. NumCalls : BackendOk(c)
    \/ \E c \in 1 .. NumCalls : \E e \in PolicyErrors \cup {Err_RateLimited(None)} :
          BackendErr(c, e)
    \/ \E c \in 1 .. NumCalls : BackoffWake(c)
    \/ \E c \in 1 .. NumCalls : CallReturn(c)
    \/ Tick

SpecPolicy == Init /\ [][NextPolicy]_vars

---------------------------------------------------------------------------
(* src/src/resilience.rs: the limiter between a congestion signal and the
   callers of wait_if_needed() that come after it, each method called
   atomically, the clock in steps of CongestionStepMs. *)

\* congestion signals, recorded callers and successes in one behaviour, and
\* the clock
MaxCongestionSignals == 2
MaxCongestionWaits == 3
MaxCongestionSuccesses == 2
CongestionStepMs == TickMs \div 10
MaxCongestionSteps == 8
MaxCongestionTime == StartMs + MaxCongestionSteps * CongestionStepMs

\* rl.record_rate_limit(retry_after); the history starts anew when the
\* signal raises the delay from 0
CongestionSignal(retry_after) ==
    /\ rl.rate_limit_hits < MaxCongestionSignals
    /\ rl' = rl_record_rate_limit(rl, retry_after)
    /\ cg' = IF rl.min_delay_ms = 0
             THEN [signalled |-> TRUE, at |-> now, d |-> rl'.min_delay_ms,
                   next |-> rl.next_allowed_ms, waits |-> <<>>,
                   oks |-> cg.oks]
             ELSE cg
    /\ UNCHANGED <<now, cb>>
    /\ UNCHANGED <<callVars, dispatchVars, threadVars, historyVars>>
    /\ UNCHANGED <<limiterThreadVars, limiterHistoryVars, pipelineVars>>
    /\ UNCHANGED <<gets, chunk_in, chunk_out, pres_in, pres_cfg, pres_out,
                   abandoned, ev>>

\* rl.wait_if_needed().await by a caller: its clock reading, the delay and
\* the reservation it found, and the slot it sleeps until
CongestionWait ==
    /\ cg.signalled
    /\ Len(cg.waits) < MaxCongestionWaits
    /\ LET w == rl_wait_if_needed(rl, current_timestamp_ms) IN
       /\ rl' = w.rl
       /\ cg' = [cg EXCEPT !.waits =
                    Append(@, [at |-> current_timestamp_ms,
                               delay |-> rl.min_delay_ms,
                               next |-> rl.next_allowed_ms,
                               slot |-> current_timestamp_ms + w.wait_time])]
    /\ UNCHANGED <<now, cb>>
    /\ UNCHANGED <<callVars, dispatchVars, threadVars, historyVars>>
    /\ UNCHANGED <<limiterThreadVars, limiterHistoryVars, pipelineVars>>
    /\ UNCHANGED <<gets, chunk_in, chunk_out, pres_in, pres_cfg, pres_out,
                   abandoned, ev>>

\* rl.record_success()
CongestionSuccess ==
    /\ rl.min_delay_ms > 0
    /\ cg.oks < MaxCongestionSuccesses
    /\ rl' = rl_record_success(rl)
    /\ cg' = [cg EXCEPT !.oks = @ + 1]
    /\ UNCHANGED <<now, cb>>
    /\ UNCHANGED <<callVars, dispatchVars, threadVars, historyVars>>
    /\ UNCHANGED <<limiterThreadVars, limiterHistoryVars, pipelineVars>>
    /\ UNCHANGED <<gets, chunk_in, chunk_out, pres_in, pres_cfg, pres_out,
                   abandoned, ev>>

\* time passes
CongestionTick ==
    /\ now + CongestionStepMs <= MaxCongestionTime
    /\ now' = now + CongestionStepMs
    /\ UNCHANGED <<cb, rl, cg>>
    /\ UNCHANGED <<callVars, dispatchVars, threadVars, historyVars>>
    /\ UNCHANGED <<limiterThreadVars, limiterHistoryVars, pipelineVars>>
    /\ UNCHANGED <<gets, chunk_in, chunk_out, pres_in, pres_cfg, pres_out,
                   abandoned, ev>>

NextCongestion ==
    \/ \E retry_after \in RetryAfterValues : CongestionSignal(retry_after)
    \/ CongestionWait
    \/ CongestionSuccess
    \/ CongestionTick

SpecCongestion == Init /\ [][NextCongestion]_vars

---------------------------------------------------------------------------
(* Properties of translate_chunks (SpecDispatch) *)

\* the calls that have been started and have not been yielded
Held == {c \in CallIds : pc[c] \in {"limiter_sleep", "backend", "backoff_sleep", "done"}}

\* C1: whatever the order in which the per-chunk calls complete, the list
\* collected so far holds at position i the result of the call for chunk i,
\* and when all calls succeeded translate_chunks returns a list as long as
\* the chunk list whose element i is the translation of chunk i.
C1_OrderedResults ==
    /\ \A i \in 1 .. Len(results) :
          /\ results[i] = result[i]
          /\ results[i].ok => results[i].val = Translate(chunks[i])
    /\ (dstate = "returned" /\ \A i \in 1 .. Len(results) : results[i].ok) =>
          /\ ret.ok
          /\ Len(ret.val) = Len(chunks)
          /\ \A i \in 1 .. Len(chunks) : ret.val[i] = Translate(chunks[i])

\* C1 witness: a dispatch of the longest list returned Ok although the call
\* of a later chunk finished while that of an earlier chunk was running
C1_Witness ==
    /\ dstate = "returned"
    /\ ret.ok
    /\ Len(chunks) = MaxChunks
    /\ overtook

\* the chunks whose call failed
FailedChunks == {i \in 1 .. Len(chunks) : pc[i] # "idle" /\ ~result[i].ok}

\* C32: translate_chunks returns Ok exactly when every chunk call
\* succeeded; when some failed it returns no translations but one error,
\* that of the failed chunk of lowest index, whichever call failed first.
C32_FirstErrorByIndex ==
    dstate = "returned" =>
        /\ \A i \in 1 .. Len(chunks) : pc[i] = "yielded"
        /\ ret.ok <=> FailedChunks = {}
        /\ ~ret.ok =>
              /\ ret.val = <<>>
              /\ \E i \in FailedChunks :
                    /\ \A j \in FailedChunks : i <= j
                    /\ ret.err = result[i].err

\* two chunk calls failed with different errors, that of the second chunk
\* while the call of the first was still running, and the dispatch returned
\* the error of the first
C32_Witness ==
    /\ dstate = "returned"
    /\ Len(chunks) = 2
    /\ overtook
    /\ FailedChunks = {1, 2}
    /\ result[1].err # result[2].err
    /\ ret = Err(result[1].err)

\* C2: the calls started and not finished, and even the futures the
\* dispatcher holds (finished ones not yet yielded included), number at
\* most MAX_CONCURRENT_TRANSLATIONS.
C2_BoundedInFlight ==
    /\ Running \subseteq Held
    /\ Cardinality(Held) <= MAX_CONCURRENT_TRANSLATIONS
    /\ Cardinality(Held) = InProgress

\* C2 witness: MAX_CONCURRENT_TRANSLATIONS calls wait for the backend while
\* a further chunk waits to be started
C2_Witness ==
    /\ Cardinality({c \in CallIds : pc[c] = "backend"}) = MAX_CONCURRENT_TRANSLATIONS
    /\ next_start <= Len(chunks)

---------------------------------------------------------------------------
\* C33: translate_chunks returns, with the translations or with an error,
\* only after every chunk call it started has finished: the call of every
\* chunk was started and its output collected, no call is suspended at an
\* await, none sleeps for a slot of the limiter, and a trial granted by the
\* breaker has been reported.
C33_ReturnsAfterAllCalls ==
    dstate = "returned" =>
        /\ next_start = Len(chunks) + 1
        /\ Len(results) = Len(chunks)
        /\ \A i \in 1 .. Len(chunks) : pc[i] = "yielded" /\ result[i] # NoResult
        /\ Running = {}
        /\ Held = {}
        /\ \A c \in CallIds : wake_at[c] = 0
        /\ cb.failure_count = fail_run

\* the call of the first chunk failed; the call of the last chunk, which
\* Buffered starts only once the first output is collected, was started
\* after that, and the dispatch returned the error after it had succeeded
C33_Witness ==
    /\ dstate = "returned"
    /\ Len(chunks) = MAX_CONCURRENT_TRANSLATIONS + 1
    /\ ~result[1].ok
    /\ result[Len(chunks)].ok
    /\ ret = Err(result[1].err)

(* Properties of the breaker under the retry orchestrator (Spec) *)

\* seconds since the breaker opened
Elapsed == saturating_sub(current_timestamp_secs, cb.opened_at)

\* what allow_request() would return now
AllowsNow == cb_allow_request(cb, current_timestamp_secs).ok

\* C3: with k record_failure() calls since the breaker was last Closed with
\* a zero count, the breaker is Closed and allow_request() returns true
\* while k < threshold; once k = threshold it is not Closed, and until the
\* reset timeout has elapsed it is Open and allow_request() returns false.
C3_OpensAtThreshold ==
    /\ cb.failure_count = fail_run
    /\ fail_run < cb.threshold =>
          state(cb, current_timestamp_secs) = "Closed" /\ AllowsNow
    /\ fail_run >= cb.threshold => cb.opened_at # 0
    /\ (fail_run = cb.threshold /\ Elapsed < cb.reset_timeout_secs) =>
          state(cb, current_timestamp_secs) = "Open" /\ ~AllowsNow

\* C3 witness: the threshold-th consecutive failure has opened the breaker
\* and a call has been turned away
C3_Witness ==
    /\ fail_run = cb.threshold
    /\ state(cb, current_timestamp_secs) = "Open"
    /\ \E c \in CallIds : pc[c] = "done" /\ result[c].err.kind = "CircuitOpen"

\* call c returns Ok in this step: record_success() has run
SuccessStep(c) == pc[c] = "backend" /\ pc'[c] = "done" /\ result'[c].ok

RejectStep(c) == pc[c] = "idle" /\ pc'[c] # "idle" /\ ~AllowsNow

\* C9: a call the breaker rejects returns CircuitOpen in the step that asked
\* the breaker: it is never suspended at the limiter or at the backend, and
\* the breaker (counts included) and the limiter are unchanged.
C9_RejectedAtOnce ==
    [][\A c \in CallIds : RejectStep(c) =>
          /\ pc'[c] = "done"
          /\ ~result'[c].ok
          /\ result'[c].err.kind = "CircuitOpen"
          /\ cb' = cb
          /\ rl' = rl
          /\ attempt'[c] = attempt[c]
          /\ fail_run' = fail_run
          /\ budget' = budget]_vars

\* C9 witness: a call was rejected while the limiter holds a delay that an
\* attempt would have had to wait for
C9_Witness ==
    /\ \E c \in CallIds : pc[c] = "done" /\ result[c].err.kind = "CircuitOpen"
    /\ rl.min_delay_ms > 0
    /\ ~AllowsNow

\* C10: the CircuitOpen error of a rejected call carries the reset timeout
\* minus the time elapsed since the breaker opened.
C10_CarriesRemaining ==
    [][\A c \in CallIds : RejectStep(c) =>
          result'[c].err = Err_CircuitOpen(cb.reset_timeout_secs - Elapsed)]_vars

\* the breaker's state before and after a step
stateNow == state(cb, current_timestamp_secs)
stateNext == state(cb', current_timestamp_secs')

\* call c returns its final backend error in this step: record_failure()
\* has run
FinalFailureStep(c) ==
    pc[c] = "backend" /\ pc'[c] = "done" /\ ~result'[c].ok

\* call c is first polled in this step and allow_request() returns true
AdmitStep(c) == pc[c] = "idle" /\ pc'[c] \in {"limiter_sleep", "backend"}

\* C8 as stated: every change of state is Closed->Open, Open->HalfOpen,
\* HalfOpen->Closed or HalfOpen->Open.
C8_FourTransitions ==
    [][stateNow # stateNext =>
          <<stateNow, stateNext>> \in
              { <<"Closed", "Open">>, <<"Open", "HalfOpen">>,
                <<"HalfOpen", "Closed">>, <<"HalfOpen", "Open">> }]_vars

\* C8 amended: every change of state is one of
\*   Closed -> Open      by the record_failure() that brings the consecutive
\*                       count to the threshold,
\*   Open -> HalfOpen    by the clock alone,
\*   HalfOpen -> Open    by the allow_request() that grants a trial and
\*                       stamps opened-at with the current time,
\*   Open -> Closed and HalfOpen -> Closed
\*                       by a record_success();
\* so a record_failure() changes the state of no breaker that is Open or
\* HalfOpen.
C8_Transitions ==
    [][stateNow # stateNext =>
          \/ /\ stateNow = "Closed"
             /\ stateNext = "Open"
             /\ \E c \in CallIds : FinalFailureStep(c)
             /\ cb'.failure_count = cb.threshold
             /\ cb'.opened_at = current_timestamp_secs
          \/ /\ stateNow = "Open"
             /\ stateNext = "HalfOpen"
             /\ cb' = cb
             /\ now' > now
          \/ /\ stateNow = "HalfOpen"
             /\ stateNext = "Open"
             /\ \E c \in CallIds : AdmitStep(c)
             /\ cb' = [cb EXCEPT !.opened_at = current_timestamp_secs]
          \/ /\ stateNow \in {"Open", "HalfOpen"}
             /\ stateNext = "Closed"
             /\ \E c \in CallIds : SuccessStep(c)]_vars

\* C8 witness: a record_success() has closed a breaker that was Open
C8_Witness ==
    /\ closed_from = "Open"
    /\ cb.opened_at = 0
    /\ cb.recoveries > 0

\* the call c starts an invocation of the backend in this step
InvocationStarts(c) == invocations'[c] = invocations[c] + 1

\* the breaker is Open when the step is taken
OpenNow == state(cb, current_timestamp_secs) = "Open"

\* C37 as stated: while the breaker is Open no invocation of the backend is
\* started, neither by a new call nor by a later attempt of a call admitted
\* before the breaker opened.
C37_NoInvocationWhileOpen ==
    [][\A c \in CallIds : InvocationStarts(c) => ~OpenNow]_vars

\* C37: while the breaker is Open a new call is rejected without an
\* invocation of the backend and without a change of the breaker; the
\* invocations started while it is Open are those of calls admitted before
\* it opened, which wake from the limiter's sleep or from a backoff sleep
\* and do not ask the breaker again.
C37_NewCallsRejectedWhileOpen ==
    /\ [][\A c \in CallIds :
             (pc[c] = "idle" /\ pc'[c] # "idle" /\ OpenNow) =>
                 /\ pc'[c] = "done"
                 /\ result'[c] = Err(Err_CircuitOpen(config.circuit_breaker_reset_secs))
                 /\ invocations'[c] = invocations[c]
                 /\ cb' = cb]_vars
    /\ [][\A c \in CallIds :
             (InvocationStarts(c) /\ OpenNow) =>
                 /\ pc[c] \in {"limiter_sleep", "backoff_sleep"}
                 /\ cb' = cb]_vars

\* the breaker is Open; a new call has been rejected, while a call admitted
\* before the breaker opened sleeps before its next attempt and is due to
\* wake inside the open window
C37_Witness ==
    \E c, d \in CallIds :
       /\ OpenNow
       /\ pc[d] = "done"
       /\ result[d] = Err(Err_CircuitOpen(config.circuit_breaker_reset_secs))
       /\ pc[c] = "backoff_sleep"
       /\ wake_at[c] < (cb.opened_at + cb.reset_timeout_secs) * 1000

\* a call admitted before the breaker opened waits for the backend on its
\* second attempt while the breaker is Open, and the other call has been
\* rejected
C37_RetryInFlightWhileOpen ==
    \E c, d \in CallIds :
       /\ OpenNow
       /\ pc[c] = "backend"
       /\ attempt[c] = 1
       /\ pc[d] = "done"
       /\ result[d] = Err(Err_CircuitOpen(config.circuit_breaker_reset_secs))

---------------------------------------------------------------------------
(* Properties of the retry loop (Spec) *)

\* google_translate is called for call c in this step
InvokeStep(c) == pc[c] # "backend" /\ pc'[c] = "backend"

\* google_translate returns to call c in this step
ReplyStep(c) == pc[c] = "backend" /\ pc'[c] # "backend"

\* the classes the retry policy retries
RetryableClasses == {"RateLimit", "Network", "Server"}

\* C11: a call with max attempts n calls the backend at most n times (the
\* history counts every call made); after an error reply of a retryable
\* class (RateLimit, Network, Server) with attempts remaining it sleeps and
\* then makes another attempt; after an error reply of any other class
\* (Auth, Quota, Client), or the n-th error reply, it returns that error at
\* once; a call that has returned makes no further attempt, and the error
\* returned by a call that made an attempt is the reply to its last one.
C11_RetryPolicy ==
    /\ [](\A c \in CallIds : invocations[c] <= config.max_retries)
    /\ [][\A c \in CallIds :
            /\ InvokeStep(c) => invocations'[c] = invocations[c] + 1
            /\ ~InvokeStep(c) => invocations'[c] \in {invocations[c], 0}
            /\ (ReplyStep(c) /\ last_reply'[c] # Some(NoError)) =>
                  LET e == last_reply'[c][1] IN
                  IF category(e) \in RetryableClasses
                        /\ invocations[c] < config.max_retries
                  THEN pc'[c] = "backoff_sleep" /\ result'[c] = result[c]
                  ELSE pc'[c] = "done" /\ result'[c] = Err(e)
            /\ (pc[c] = "backoff_sleep" /\ pc'[c] # pc[c]) =>
                  pc'[c] \in {"limiter_sleep", "backend"}
            /\ (pc[c] = "limiter_sleep" /\ pc'[c] # pc[c]) => pc'[c] = "backend"
            /\ pc[c] = "done" => ~InvokeStep(c) /\ pc'[c] \in {"done", "idle", "yielded"}
         ]_vars
    /\ [](\A c \in CallIds :
            (pc[c] = "done" /\ ~result[c].ok /\ invocations[c] > 0) =>
                result[c].err = last_reply[c][1])

\* C11 witness: a call has used all its attempts and returned the error of
\* the last one, which is of another class than the error before it
C11_Witness ==
    \E c \in CallIds :
        /\ pc[c] = "done"
        /\ invocations[c] = config.max_retries
        /\ last_error[c] # None
        /\ ~result[c].ok
        /\ category(result[c].err) # category(last_error[c][1])
        /\ category(result[c].err) \in RetryableClasses

---------------------------------------------------------------------------
(* Properties of the limiter's delay (SpecLimiter) *)

\* a call of record_rate_limit is made in this step
SignalStep == rl'.rate_limit_hits = rl.rate_limit_hits + 1

\* min(1000 * s, max_delay_ms) in exact arithmetic
ExactCappedMs(s) ==
    IF is_small_u64(s) /\ s[1] * 1000 <= max_delay_ms
    THEN s[1] * 1000
    ELSE max_delay_ms

\* C13: record_rate_limit(Some(s)) leaves the minimum delay at
\* min(1000 * s, 30000) ms, whatever the delay was before and whatever s is.
C13_SuggestedDelayCapped ==
    [][(SignalStep /\ last_op'.arg # None) =>
          rl'.min_delay_ms = ExactCappedMs(last_op'.arg[1])]_vars

\* C14: a record_rate_limit(None) called on a delay below the cap leaves a
\* strictly larger delay, at least 100 ms when the delay was 0; and no
\* sequence of record_rate_limit, record_success and reset calls leaves a
\* delay above the cap.
C14_BackoffGrowsToCap ==
    /\ [](rl.min_delay_ms <= max_delay_ms)
    /\ [][(SignalStep /\ last_op'.arg = None) =>
             /\ rl.min_delay_ms < max_delay_ms => rl'.min_delay_ms > rl.min_delay_ms
             /\ rl.min_delay_ms = 0 => rl'.min_delay_ms >= 100
             /\ rl'.min_delay_ms <= max_delay_ms]_vars

\* C14 witness: a signal without a suggested delay met a delay that
\* doubling would take beyond the cap, and left the cap
C14_Witness ==
    /\ last_op = OpSignal(None)
    /\ rl.min_delay_ms = max_delay_ms
    /\ rl.rate_limit_hits = 2

\* C15: record_success() called on a delay d > 0 leaves the integer part
\* of 0.75 * d, which is below d, and called on 0 leaves 0 (it changes
\* nothing else of the limiter); and when no congestion signal comes any
\* more while successes keep arriving, the delay reaches 0.
C15_SuccessShrinksToZero ==
    /\ [][(last_op' = OpSuccess /\ rl' # rl) =>
             /\ rl.min_delay_ms > 0
             /\ 4 * rl'.min_delay_ms <= 3 * rl.min_delay_ms
             /\ 4 * (rl'.min_delay_ms + 1) > 3 * rl.min_delay_ms
             /\ rl'.min_delay_ms < rl.min_delay_ms
             /\ rl' = [rl EXCEPT !.min_delay_ms = rl'.min_delay_ms]]_vars
    /\ [](rl.min_delay_ms = 0 => rl_record_success(rl) = rl)
    /\ [](rl.min_delay_ms > 0 => rl_record_success(rl) # rl)
    /\ (rl.rate_limit_hits = MaxSignals /\ ~panicked) ~> (rl.min_delay_ms = 0)

\* C15 witness: successes have brought the delay down to 1 ms, from where
\* the next one leaves 0
C15_Witness ==
    /\ last_op = OpSuccess
    /\ rl.min_delay_ms = 1
    /\ rl_record_success(rl).min_delay_ms = 0

---------------------------------------------------------------------------
(* Properties of the limiter's delay written from several threads
   (SpecLimiterThreads) *)

\* the exchange of thread t's record_success() succeeds in this step
SuccessWrite(t) == tpc[t] = "ls_cas" /\ tpc'[t] = "idle"

\* the delay after n record_success writes on the delay v
RECURSIVE Shrunk(_, _)
Shrunk(v, n) == IF n = 0 THEN v ELSE Shrunk((3 * v) \div 4, n - 1)

\* C16: the exchange of a record_success() succeeds only while the delay is
\* still the one it loaded, so the delay it installs is the integer part of
\* 0.75 times the delay in place at the instant of the write: when a signal
\* has set the delay to v since the load, the success either fails and
\* loads again, or v is the value it had loaded, and it leaves 0.75 * v.
\* At every instant the delay is the v of the latest signal written, shrunk
\* once per success written after it.
C16_SuccessNeverStale ==
    /\ [][\A t \in LimiterThreads : SuccessWrite(t) =>
             /\ t_current[t] = rl.min_delay_ms
             /\ rl'.min_delay_ms = (3 * rl.min_delay_ms) \div 4
             /\ rl'.min_delay_ms < rl.min_delay_ms]_vars
    /\ [](rl.min_delay_ms = Shrunk(signal_run.stored, signal_run.shrunk))

\* C16 witness: a signal raised the delay between the load and the exchange
\* of a record_success(); the exchange failed and the thread is about to
\* load again
C16_Witness ==
    \E t \in LimiterThreads :
        /\ tpc[t] = "ls_load"
        /\ t_current[t] > 0
        /\ rl.min_delay_ms > t_current[t]
        /\ \A u \in LimiterThreads \ {t} : tpc[u] = "idle"

\* C18: when every call has returned, k record_rate_limit(None) calls
\* made (concurrently or not) on a delay d >= 100 have left the delay at
\* min(d * 2^k, 30000).
C18_NoLostSignal ==
    (/\ \A t \in LimiterThreads : tpc[t] = "idle"
     /\ signal_run.pure
     /\ signal_run.base >= 100)
    => rl.min_delay_ms = Min(signal_run.base * Pow2(signal_run.k), max_delay_ms)

---------------------------------------------------------------------------
(* Properties of concurrent wait_if_needed() callers (SpecWaiters) *)

\* thread t reserves its slot in this step
ReserveStep(t) ==
    /\ tpc[t] = "wn_cas"
    /\ tpc'[t] \in {"wn_sleep", "idle"}
    /\ Len(reserved') = Len(reserved) + 1

\* C17: while the delay is a constant d > 0, the slots reserved by any two
\* callers, in whatever way their steps interleave, are at least d apart;
\* each caller's wait is its slot minus the time it read as now, and it
\* sleeps for that long when it is not 0.
C17_SlotsApart ==
    /\ [](rl.min_delay_ms > 0)
    /\ [](\A i, j \in 1 .. Len(reserved) :
             i < j => reserved[j].slot - reserved[i].slot >= rl.min_delay_ms)
    /\ [](\A i \in 1 .. Len(reserved) :
             /\ reserved[i].delay = rl.min_delay_ms
             /\ reserved[i].slot >= reserved[i].at
             /\ reserved[i].wait = reserved[i].slot - reserved[i].at)
    /\ [][\A t \in LimiterThreads : ReserveStep(t) =>
             LET r == reserved'[Len(reserved')] IN
             /\ r.at = t_now[t]
             /\ r.slot = Max(rl.next_allowed_ms, t_now[t])
             /\ rl'.next_allowed_ms = r.slot + rl.min_delay_ms
             /\ IF r.wait > 0
                THEN tpc'[t] = "wn_sleep" /\ t_wake'[t] = now + r.wait
                ELSE tpc'[t] = "idle"]_vars

\* C17 witness: three callers read the same clock value and reserved three
\* slots; two of them sleep, until different times
C17_Witness ==
    /\ Len(reserved) = 3
    /\ reserved[1].at = reserved[2].at
    /\ reserved[2].at = reserved[3].at
    /\ \E t, u \in LimiterThreads :
          /\ tpc[t] = "wn_sleep"
          /\ tpc[u] = "wn_sleep"
          /\ t_wake[t] # t_wake[u]

---------------------------------------------------------------------------
(* Properties of the pipeline (SpecPipeline) *)

\* the input's CJK ratio is below the threshold (in thousandths), or it has
\* no character of a CJK language
Skippable(t, cfg) ==
    \/ t.total > 0 /\ (t.chinese + t.japanese + t.korean) * 1000 < cfg.threshold * t.total
    \/ t.total = 0 /\ 0 < cfg.threshold
    \/ t.chinese = 0 /\ t.japanese = 0 /\ t.korean = 0

\* nothing of the breaker, the limiter or the orchestrator's call changes
NoBackendWork ==
    UNCHANGED <<cb, rl, pc, attempt, wake_at, invocations, last_reply, budget,
                last_trial, fail_run>>

\* C19: an invocation of the pipeline with an input whose CJK ratio is below
\* the threshold, or whose language is English, returns at once with the
\* input as its text, was_translated = false and cache_hit = false; the
\* breaker, the limiter and the cache (store and counters) are unchanged and
\* no call of the backend is begun.
C19_SkippedUntouched ==
    [][(pl.pc = "idle" /\ pl'.pc # "idle") =>
       \A t \in PipelineInputs : \A cfg \in PipelineConfigs :
       \A use_cache \in BOOLEAN : \A open_ok \in BOOLEAN :
          (/\ pl'.text = Some(t.id)
           /\ Skippable(t, cfg)
           /\ PipelineCall(t, cfg, use_cache, open_ok))
          => /\ pl'.pc = "returned"
             /\ pl'.out.ok
             /\ pl'.out.val.original = t.id
             /\ pl'.out.val.translated = t.id
             /\ ~pl'.out.val.was_translated
             /\ ~pl'.out.val.cache_hit
             /\ cache' = cache
             /\ NoBackendWork]_vars

\* C19 witness: an input with CJK characters below the threshold was
\* returned untranslated while the breaker was Open, the limiter had a
\* delay and the store held an entry
C19_Witness ==
    /\ pl.pc = "returned"
    /\ pl.out.ok
    /\ ~pl.out.val.was_translated
    /\ pl.language # "English"
    /\ state(cb, current_timestamp_secs) = "Open"
    /\ rl.min_delay_ms > 0
    /\ DOMAIN cache.db # {}

C21_CacheFailureAbsorbed ==
    /\ [][(pl.pc = "idle" /\ pl'.pc # "idle" /\ ~cache.stub) =>
          \A t \in PipelineInputs : \A cfg \in PipelineConfigs :
          \A use_cache \in BOOLEAN :
             (/\ pl'.text = Some(t.id)
              /\ PipelineCall(t, cfg, use_cache, FALSE))
             => /\ cache' = cache
                /\ ~pl'.opened
                /\ pl'.pc = IF Skippable(t, cfg) THEN "returned" ELSE "translating"
                /\ pl'.pc = "returned" => ~pl'.out.val.was_translated]_vars
    /\ [][(pl.pc = "translating" /\ pl'.pc = "returned") =>
          /\ pl'.out.ok <=> result[1].ok
          /\ result[1].ok =>
                /\ pl'.out.val.was_translated
                /\ ~pl'.out.val.cache_hit
                /\ pl'.out.val.translated =
                      restore_preserved(result[1].val, pl.segments[1])
          /\ ~result[1].ok => pl'.out = result[1]]_vars
    /\ []((pl.pc = "returned" /\ ~pl.out.ok) => category(pl.out.err) # "Cache")

\* C21 witness: the insert of the entry failed and the pipeline returned the
\* translation
C21_Witness ==
    /\ pl.pc = "returned"
    /\ pl.put_failed
    /\ pl.out.ok
    /\ pl.out.val.was_translated
    /\ pl.key[1] \notin DOMAIN cache.db

\* an invocation whose cache could not be opened returned a translation
C21_OpenFailed ==
    /\ pl.pc = "returned"
    /\ pl.open_failed
    /\ pl.out.ok
    /\ pl.out.val.was_translated

\* C28: the retry policy in force for the chunk calls of an invocation is
\* the one of the caller's Config: a chunk is attempted at most max_retries
\* times, the breaker is away from Closed once circuit_breaker_threshold
\* consecutive calls have failed, and it is built with the caller's threshold
\* and reset timeout.
C28_CallerPolicy ==
    pl.pc = "translating" =>
        /\ invocations[1] <= pl.resilience.max_retries
        /\ fail_run >= pl.resilience.circuit_breaker_threshold => cb.opened_at # 0
        /\ cb.threshold = pl.resilience.circuit_breaker_threshold
        /\ cb.reset_timeout_secs = pl.resilience.circuit_breaker_reset_secs

\* the caller asked for one attempt and the chunk is at its second
C28_SecondAttempt ==
    /\ pl.pc = "translating"
    /\ pl.resilience.max_retries = 1
    /\ invocations[1] > 1

\* the caller asked for a breaker that opens at the first failed call; one
\* call has failed and the breaker is Closed
C28_StillClosed ==
    /\ pl.pc = "translating"
    /\ pl.resilience.circuit_breaker_threshold = 1
    /\ fail_run = 1
    /\ state(cb, current_timestamp_secs) = "Closed"

\* the category a caller has to see for each kind of error that can cross
\* the pipeline boundary: a breaker rejection has a category of its own
ExpectedCategory(e) ==
    CASE e.kind = "AuthError"     -> "Auth"
      [] e.kind = "RateLimited"   -> "RateLimit"
      [] e.kind = "QuotaExceeded" -> "Quota"
      [] e.kind = "Timeout"       -> "Network"
      [] e.kind = "ConnectionFailed" -> "Network"
      [] e.kind = "RetryableHttp" -> "Server"
      [] e.kind = "Translation"   -> "Client"
      [] e.kind = "CircuitOpen"   -> "CircuitOpen"
      [] e.kind = "Cache"         -> "Cache"

\* C27: every error the pipeline returns has one category, the one of its
\* kind, and a breaker rejection (CircuitOpen) is neither in the category
\* Server of the backend's errors nor retryable.
C27_ErrorsDistinguished ==
    (pl.pc = "returned" /\ ~pl.out.ok) =>
        /\ category(pl.out.err) = ExpectedCategory(pl.out.err)
        /\ pl.out.err.kind = "CircuitOpen" =>
              /\ category(pl.out.err) # "Server"
              /\ ~is_retryable(pl.out.err)

\* the pipeline has returned the rejection of the breaker
C27_RejectionReturned ==
    /\ pl.pc = "returned"
    /\ ~pl.out.ok
    /\ pl.out.err.kind = "CircuitOpen"
    /\ category(pl.out.err) = "Server"
    /\ is_retryable(pl.out.err)

\* the errors of the backend, which the pipeline returns as well, have the
\* categories of their kinds
C27_BackendErrorsClassified ==
    (pl.pc = "returned" /\ ~pl.out.ok /\ pl.out.err.kind # "CircuitOpen") =>
        category(pl.out.err) = ExpectedCategory(pl.out.err)

---------------------------------------------------------------------------
(* Properties of TranslationCache::get (SpecCache) *)

\* get is called in this step
GetStep == Len(gets') = Len(gets) + 1

---------------------------------------------------------------------------
(* Properties of the retry loop towards the limiter (Spec) *)

\* C12: an attempt that fails with a rate-limit reply makes exactly one
\* record_rate_limit call (the hit counter goes up by one), which sets the
\* delay from the suggested seconds when the reply carried them and by the
\* doubling rule otherwise; an attempt that fails with a reply of any other
\* class leaves the limiter as it was.
C12_OneSignalPerRateLimit ==
    [][\A c \in CallIds :
          (ReplyStep(c) /\ last_reply'[c] # Some(NoError)) =>
             LET e == last_reply'[c][1] IN
             IF category(e) = "RateLimit"
             THEN /\ rl'.rate_limit_hits = rl.rate_limit_hits + 1
                  /\ rl'.next_allowed_ms = rl.next_allowed_ms
                  /\ rl'.min_delay_ms =
                        IF e.arg # None
                        THEN ExactCappedMs(e.arg[1])
                        ELSE Min(2 * Max(rl.min_delay_ms, 100), max_delay_ms)
             ELSE rl' = rl]_vars

\* C12 witness: a second rate-limit reply, carrying a suggested delay of one
\* second, has replaced the doubled delay of the first by 1000 ms
C12_Witness ==
    \E c \in CallIds :
        /\ last_reply[c] = Some(Err_RateLimited(Some(U64(1))))
        /\ pc[c] \in {"backoff_sleep", "done"}
        /\ rl.rate_limit_hits = 2
        /\ rl.min_delay_ms = 1000

---------------------------------------------------------------------------
(* Properties of the breaker called from several threads (SpecThreads) *)

\* thread t returns true from allow_request() in this step
GrantStep(t) == tpc[t] # "admitted" /\ tpc'[t] = "admitted"

\* C4: allow_request() returns true only in two ways: the breaker is Closed
\* at that moment, or the caller's exchange replaces the opened-at value in
\* force by its clock reading, which is at least the reset timeout later
\* than that value and than the clock reading of any trial granted since
\* the breaker was last closed.  So of the callers that find one expired
\* window exactly one is granted the trial; the others are rejected by the
\* window the winner started, or accepted by a Closed breaker.
C4_OneTrialPerWindow ==
    [][\A t \in Threads : GrantStep(t) =>
          \/ cb.opened_at = 0 /\ cb' = cb
          \/ /\ cb.opened_at # 0
             /\ cb'.opened_at >= cb.opened_at + cb.reset_timeout_secs
             /\ last_trial # 0 => cb'.opened_at >= last_trial + cb.reset_timeout_secs
             /\ cb' = [cb EXCEPT !.opened_at = cb'.opened_at]
             /\ \A u \in Threads \ {t} : tpc'[u] = tpc[u]]_vars

\* C4 witness: two callers loaded the same expired window; one replaced it
\* and holds the trial, the exchange of the other failed and it is back at
\* the load, facing the window the winner started
C4_Witness ==
    \E t, u \in Threads :
        /\ tpc[t] = "admitted"
        /\ tpc[u] = "ar_load"
        /\ t_opened_at[u] # 0
        /\ cb.opened_at >= t_opened_at[u] + cb.reset_timeout_secs
        /\ cb.opened_at = last_trial

\* thread t executes a step of record_failure()
FailureStep(t) ==
    \/ tpc[t] = "admitted" /\ tpc'[t] = "rf_count"
    \/ tpc[t] \in {"rf_count", "rf_clock", "rf_cas"} /\ tpc'[t] # tpc[t]

\* C6: no step of record_failure() changes an opened-at timestamp that is
\* not 0, so the moment at which allow_request() next grants a trial,
\* opened-at plus the reset timeout, is not postponed by failures.
C6_FailureKeepsWindow ==
    [][\A t \in Threads : (FailureStep(t) /\ cb.opened_at # 0) =>
          cb'.opened_at = cb.opened_at]_vars

\* C6 witness: a record_failure() whose count is beyond the threshold has
\* run its exchange against a window opened at an earlier second, and
\* every call of record_failure() has returned
C6_Witness ==
    /\ cb.failure_count > cb.threshold
    /\ cb.opened_at # 0
    /\ cb.opened_at < current_timestamp_secs
    /\ \A t \in Threads : tpc[t] \notin {"rf_count", "rf_clock", "rf_cas"}

\* C7: opened-at goes from a non-zero value to 0 exactly in the steps the
\* history counts as closings, and each closing is matched by one increment
\* of the recovery counter, done or about to be done by the thread whose
\* exchange closed the breaker.
C7_OneRecoveryPerClosing ==
    /\ [][closings' = closings +
             (IF cb.opened_at # 0 /\ cb'.opened_at = 0 THEN 1 ELSE 0)]_vars
    /\ [](cb.recoveries + Cardinality({t \in Threads : tpc[t] = "rs_inc"})
             = closings)

\* C7 witness: two record_success() calls loaded the same open window; the
\* exchange of one closed the breaker, that of the other failed and it
\* skips the increment
C7_Witness ==
    \E t, u \in Threads :
        /\ tpc[t] = "rs_inc"
        /\ tpc[u] = "rs_store"
        /\ t_opened_at[u] # 0
        /\ t_opened_at[u] = t_opened_at[t]
        /\ cb.recoveries = 0


---------------------------------------------------------------------------
(* Properties of chunk_text (SpecChunker) *)

\* the chunks one after the other
RECURSIVE concat(_)
concat(cs) == IF cs = <<>> THEN <<>> ELSE Head(cs) \o concat(Tail(cs))

\* the bytes of the first n chunks
RECURSIVE bytes_of_chunks(_, _)
bytes_of_chunks(cs, n) ==
    IF n = 0 THEN 0 ELSE bytes_of_chunks(cs, n - 1) + str_len(cs[n])

\* C24: the chunks returned by chunk_text, concatenated in index order, are
\* the text: nothing is dropped, duplicated or reordered.
C24_ChunksConcatenate ==
    chunk_out # None =>
        /\ ~chunk_out[1].panicked
        /\ concat(chunk_out[1].chunks) = chunk_in

\* a text of mixed widths was cut into three chunks or more
C24_Witness ==
    /\ chunk_out # None
    /\ ~chunk_out[1].panicked
    /\ Len(chunk_out[1].chunks) >= 3
    /\ \E n \in 1 .. Len(chunk_in) : len_utf8(chunk_in[n]) = 1
    /\ \E n \in 1 .. Len(chunk_in) : len_utf8(chunk_in[n]) > 1

\* C25: every chunk returned by chunk_text, the last included, has at most
\* MAX_CHUNK_SIZE bytes and starts and ends on a character boundary of the
\* text, whatever the widths (1 to 4 bytes) of its characters.
C25_ChunksBounded ==
    chunk_out # None =>
        /\ ~chunk_out[1].panicked
        /\ \A i \in 1 .. Len(chunk_out[1].chunks) :
              /\ str_len(chunk_out[1].chunks[i]) <= MAX_CHUNK_SIZE
              /\ is_char_boundary(chunk_in, bytes_of_chunks(chunk_out[1].chunks, i - 1))
              /\ is_char_boundary(chunk_in, bytes_of_chunks(chunk_out[1].chunks, i))

\* the size limit fell inside a character of 2 bytes and inside one of 4
\* bytes, and the last chunk is neither empty nor the only one
C25_Witness ==
    /\ chunk_out # None
    /\ Len(chunk_out[1].chunks) >= 2
    /\ \E i, j \in 1 .. Len(chunk_out[1].chunks) :
          /\ i # j
          /\ str_len(chunk_out[1].chunks[i]) < MAX_CHUNK_SIZE
          /\ str_len(chunk_out[1].chunks[j]) < MAX_CHUNK_SIZE
          /\ i < Len(chunk_out[1].chunks) /\ j < Len(chunk_out[1].chunks)
          /\ len_utf8(chunk_in[chars_before(chunk_in, bytes_of_chunks(chunk_out[1].chunks, i)) + 1]) = 2
          /\ len_utf8(chunk_in[chars_before(chunk_in, bytes_of_chunks(chunk_out[1].chunks, j)) + 1]) = 4
          /\ \A n \in 1 .. Len(chunk_in) : chunk_in[n] \in {"a", "u00E9", "u1F600"}

\* what remains of the text when the loop of chunk_text starts the
\* iteration that pushes the chunk i
RemainingAt(i) == slice_from(chunk_in, bytes_of_chunks(chunk_out[1].chunks, i - 1))

\* C31: chunk_text returns for every text; each iteration of its loop
\* splits at a position greater than 0 and so leaves less of the text, no
\* chunk of a non-empty text is empty, and a non-empty text gives at most
\* as many chunks as it has bytes.
C31_ChunkTextTerminates ==
    chunk_out # None =>
        /\ ~chunk_out[1].panicked
        /\ \A i \in 1 .. Len(chunk_out[1].chunks) - 1 :
              /\ find_split_point_single_pass(RemainingAt(i)) > 0
              /\ str_len(RemainingAt(i + 1)) < str_len(RemainingAt(i))
        /\ chunk_in # <<>> =>
              /\ \A i \in 1 .. Len(chunk_out[1].chunks) : chunk_out[1].chunks[i] # <<>>
              /\ Len(chunk_out[1].chunks) <= str_len(chunk_in)

\* the loop ran three iterations or more, on a text that starts with a
\* character as wide as the limit
C31_Witness ==
    /\ chunk_out # None
    /\ ~chunk_out[1].panicked
    /\ Len(chunk_out[1].chunks) >= 4
    /\ len_utf8(chunk_in[1]) = MAX_CHUNK_SIZE

\* the empty text gives one chunk, the empty one
C31_EmptyText ==
    /\ chunk_in = <<>>
    /\ chunk_out = Some(Chunked(<< <<>> >>))

\* the end of the window: the largest character boundary within the limit
WindowEnd(s) ==
    bytes_before(s, CHOOSE n \in 0 .. Len(s) :
        /\ bytes_before(s, n) <= MAX_CHUNK_SIZE
        /\ n < Len(s) => bytes_before(s, n + 1) > MAX_CHUNK_SIZE)

IsWhitespace(ch) == ch \in {"SP", "LF", "TAB", "CR"}

\* the boundaries of a tier in the window that ends at w: the positions just
\* after a character of the tier
TierCandidates(s, w, tier) ==
    {bytes_before(s, n) : n \in
        {m \in 1 .. Len(s) :
            /\ bytes_before(s, m) <= w
            /\ CASE tier = 1 -> s[m] \in {"u3002", "uFF01", "uFF1F", "uFF61"}
                 [] tier = 2 -> /\ s[m] \in {".", "!", "?"}
                                /\ \/ bytes_before(s, m) = w
                                   \/ IsWhitespace(s[m + 1])
                 [] tier = 3 -> s[m] = "LF"
                 [] tier = 4 -> s[m] \in {"SP", "TAB"}}}

Rightmost(S) == CHOOSE b \in S : \A c \in S : c <= b

\* the split point the tiers call for
TierSplit(s) ==
    LET w == WindowEnd(s)
        tiers == {tier \in 1 .. 4 : TierCandidates(s, w, tier) # {}}
    IN IF tiers = {} THEN w
       ELSE Rightmost(TierCandidates(s, w,
                CHOOSE tier \in tiers : \A other \in tiers : tier <= other))

\* C30: a text longer than the maximum is split at the rightmost boundary of
\* the first tier (CJK sentence end; western sentence end followed by
\* whitespace or by the window end; newline; space or tab) that has a
\* boundary in the window, and at the window end when no tier has one.
C30_SplitByTier ==
    (chunk_out # None /\ str_len(chunk_in) > MAX_CHUNK_SIZE) =>
        /\ ~chunk_out[1].panicked
        /\ str_len(chunk_out[1].chunks[1]) = TierSplit(chunk_in)

\* the window holds a western sentence end, a newline to its right and a
\* space further right, and the text was split after the sentence end
C30_Witness ==
    /\ chunk_out # None
    /\ str_len(chunk_in) > MAX_CHUNK_SIZE
    /\ TierCandidates(chunk_in, WindowEnd(chunk_in), 1) = {}
    /\ \E w \in TierCandidates(chunk_in, WindowEnd(chunk_in), 2) :
       \E l \in TierCandidates(chunk_in, WindowEnd(chunk_in), 3) :
       \E p \in TierCandidates(chunk_in, WindowEnd(chunk_in), 4) :
          /\ w < l /\ l < p
          /\ str_len(chunk_out[1].chunks[1]) = w

\* no tier has a boundary in the window, whose end is short of the limit
C30_NoCandidate ==
    /\ chunk_out # None
    /\ str_len(chunk_in) > MAX_CHUNK_SIZE
    /\ \A tier \in 1 .. 4 : TierCandidates(chunk_in, WindowEnd(chunk_in), tier) = {}
    /\ str_len(chunk_out[1].chunks[1]) < MAX_CHUNK_SIZE

---------------------------------------------------------------------------
(* Properties of the preserver (SpecPreserver) *)

\* how many times a character stands in a text
RECURSIVE count_char(_, _)
count_char(txt, c) ==
    IF txt = <<>> THEN 0
    ELSE (IF Head(txt) = c THEN 1 ELSE 0) + count_char(Tail(txt), c)

\* how many times a character stands in the originals of the first k segments
RECURSIVE count_in_originals(_, _, _)
count_in_originals(segments, k, c) ==
    IF k = 0 THEN 0
    ELSE count_in_originals(segments, k - 1, c) + count_char(segments[k].original, c)

\* how many of the segments are of a type
segments_of_type(segments, segment_type) ==
    Cardinality({k \in 1 .. Len(segments) : segments[k].segment_type = segment_type})

\* C23: restoring the placeholdered text with the segments of the extraction
\* gives back the input, whatever the input, a literal placeholder in it
\* included.
C23_RoundTrip ==
    pres_out # None => pres_out[1].restored = pres_in

\* the literal text of the placeholder of the first inline span, a space and
\* an inline span: the literal is restored as if it were the span
C23_FailingInput ==
    /\ pres_in = <<format_placeholder("inline", 0), Space, Backtick, CjkWord, Backtick>>
    /\ pres_cfg = PreserveConfig_default
    /\ pres_out # None
    /\ pres_out[1].text = <<format_placeholder("inline", 0), Space,
                            format_placeholder("inline", 0)>>
    /\ pres_out[1].restored = <<Backtick, CjkWord, Backtick, Space,
                                Backtick, CjkWord, Backtick>>

\* a marked span is restored without its delimiters
C23_MarkersStripped ==
    /\ pres_in = <<WikiOpen, CjkWord, WikiClose>>
    /\ pres_cfg = PreserveConfig_all
    /\ pres_out # None
    /\ pres_out[1].restored = <<CjkWord>>

\* a literal placeholder inside a span created earlier is restored as it was
C23_LiteralInsideSpan ==
    /\ pres_in = <<Backtick, format_placeholder("inline", 0), Backtick>>
    /\ pres_out # None
    /\ Len(pres_out[1].segments) = 1
    /\ pres_out[1].restored = pres_in

\* the texts made of words and spaces only
RECURSIVE is_plain(_)
is_plain(txt) ==
    txt = <<>> \/ (Head(txt) \in {Space, CjkWord, TermWord} /\ is_plain(Tail(txt)))

\* the runs of technical terms of a text
term_runs(txt) ==
    Cardinality({k \in 1 .. Len(txt) :
        txt[k] = TermWord /\ (k = 1 \/ txt[k - 1] # TermWord)})

\* C26: a span taken by a pass is not preserved again, whole or in part, by
\* a later pass: every character of the input is in the placeholdered text,
\* or in the original of one segment, or is a delimiter of a marker; and a
\* technical term between [[ and ]], all categories enabled, gives one
\* marker segment whose original is the term, no technical-term segment,
\* and is restored without the delimiters.
C26_NoDoublePreservation ==
    pres_out # None =>
        /\ count_char(pres_in, format_placeholder("inline", 0)) = 0 =>
              \A c \in PreserveAlphabet \ {format_placeholder("inline", 0)} :
                  count_char(pres_in, c) =
                      count_char(pres_out[1].text, c)
                      + count_in_originals(pres_out[1].segments,
                                           Len(pres_out[1].segments), c)
                      + (IF c \in {WikiOpen, WikiClose}
                         THEN segments_of_type(pres_out[1].segments, "NoTranslate")
                         ELSE 0)
        /\ pres_cfg = PreserveConfig_all =>
              \A n \in 0 .. Len(pres_in) - 3 :
                  LET before == SubSeq(pres_in, 1, n)
                      after == SubSeq(pres_in, n + 4, Len(pres_in))
                  IN (/\ SubSeq(pres_in, n + 1, n + 3) = <<WikiOpen, TermWord, WikiClose>>
                      /\ is_plain(before)
                      /\ is_plain(after)) =>
                         /\ segments_of_type(pres_out[1].segments, "NoTranslate") = 1
                         /\ \A k \in 1 .. Len(pres_out[1].segments) :
                               pres_out[1].segments[k].segment_type = "NoTranslate" =>
                                   pres_out[1].segments[k].original = <<TermWord>>
                         /\ segments_of_type(pres_out[1].segments, "EnglishTerm")
                                = term_runs(before) + term_runs(after)
                         /\ pres_out[1].restored = before \o <<TermWord>> \o after

\* [[getUserData]] between two words, all categories enabled: one segment
C26_Witness ==
    /\ pres_in = <<CjkWord, WikiOpen, TermWord, WikiClose, CjkWord>>
    /\ pres_cfg = PreserveConfig_all
    /\ pres_out # None
    /\ Len(pres_out[1].segments) = 1
    /\ pres_out[1].segments[1].segment_type = "NoTranslate"
    /\ pres_out[1].restored = <<CjkWord, TermWord, CjkWord>>

\* a term outside the marker is preserved by the last pass, the one inside is
\* not
C26_TermOutside ==
    /\ pres_in = <<TermWord, Space, WikiOpen, TermWord, WikiClose>>
    /\ pres_cfg = PreserveConfig_all
    /\ pres_out # None
    /\ Len(pres_out[1].segments) = 2
    /\ pres_out[1].segments[2].segment_type = "EnglishTerm"

---------------------------------------------------------------------------
(* Properties of dropped calls (SpecAbandon) *)

\* the call c is dropped in this step
AbandonStep(c) ==
    pc[c] \in {"limiter_sleep", "backend", "backoff_sleep"} /\ pc'[c] = "idle"

\* the latest trial of the breaker was granted to a call that was dropped,
\* and nothing has been reported to the breaker since
AbandonedTrialPending ==
    /\ abandoned.trial_at # 0
    /\ cb.opened_at # 0
    /\ last_trial = abandoned.trial_at

\* C29: a call admitted by allow_request() and dropped without reporting
\* leaves the breaker and the limiter as they were; when the dropped call
\* was the trial, a call that arrives once the reset timeout has elapsed
\* since the slot was claimed is admitted as a new trial; and the breaker's
\* count and the limiter's delay stay consistent.
C29_AbandonedAgesOut ==
    /\ [][\A c \in CallIds : AbandonStep(c) =>
             cb' = cb /\ rl' = rl /\ fail_run' = fail_run]_vars
    /\ [][\A c \in CallIds :
             (/\ pc[c] = "idle" /\ pc'[c] # "idle"
              /\ AbandonedTrialPending
              /\ current_timestamp_secs - abandoned.trial_at >= cb.reset_timeout_secs) =>
                 /\ pc'[c] # "done"
                 /\ cb'.opened_at = current_timestamp_secs
                 /\ last_trial' = current_timestamp_secs]_vars
    /\ [](/\ cb.failure_count = fail_run
          /\ cb.opened_at # 0 => fail_run >= cb.threshold
          /\ rl.min_delay_ms <= max_delay_ms)

\* the only trial granted so far was dropped, and after the reset timeout
\* another call is the trial
C29_Witness ==
    /\ abandoned.trial_at # 0
    /\ closings = 0
    /\ cb.total_failures = cb.threshold
    /\ last_trial >= abandoned.trial_at + cb.reset_timeout_secs
    /\ cb.opened_at = last_trial
    /\ \E c \in CallIds : pc[c] = "backend"

\* a call admitted while the breaker was Closed was dropped while it slept
\* for the limiter
C29_DroppedAtLimiter ==
    /\ abandoned.n > 0
    /\ abandoned.trial_at = 0
    /\ rl.min_delay_ms > 0
    /\ rl.next_allowed_ms > now
    /\ \A c \in CallIds : pc[c] = "idle"

---------------------------------------------------------------------------
(* Properties of enforce_size_limit (SpecEvict) *)

\* enforce_size_limit has run a round in this call
RoundRun == ev.round > 0

\* the loop stops before a round when the size is within the bound or the
\* store is empty, after a round whose count of removals is 0, and after
\* round MAX_EVICTION_ROUNDS
StopsAsCoded ==
    /\ ev.round <= MAX_EVICTION_ROUNDS
    /\ ev.pc = "round" /\ RoundRun =>
          ev.removed > 0 /\ ev.round < MAX_EVICTION_ROUNDS
    /\ ev.pc = "returned" =>
          \/ ev.why = "within bound" /\ ~ev.over
          \/ ev.why = "empty" /\ ev.over /\ ev.len = 0
          \/ ev.why = "removed nothing" /\ RoundRun /\ ev.removed = 0
          \/ ev.why = "rounds" /\ ev.round = MAX_EVICTION_ROUNDS /\ ev.removed > 0

\* C34 as stated: at most 10 rounds, the stops as above, and every round
\* that runs removes max(1, floor(len / 4)) of the len entries present.
C34_ExactQuarter ==
    /\ StopsAsCoded
    /\ RoundRun => ev.before - ev.len = Max(1, ev.before \div 4)

\* C34: enforce_size_limit returns after at most MAX_EVICTION_ROUNDS
\* rounds; it stops before a round when the size is within the bound or
\* the store is empty and after a round that counted no removal; a round
\* that runs counts at most max(1, floor(len / 4)) removals, and removes
\* no more entries than it counts.
C34_BoundedRounds ==
    /\ StopsAsCoded
    /\ RoundRun =>
          /\ ev.target = Max(1, ev.before \div 4)
          /\ ev.removed <= ev.target
          /\ ev.before - ev.len <= ev.removed
          /\ ev.before > 0

\* ten rounds have run and the last of them removed a quarter of eight
\* entries or more
C34_Witness ==
    /\ ev.pc = "returned"
    /\ ev.why = "rounds"
    /\ ev.before >= 8
    /\ ev.before - ev.len = ev.before \div 4

\* a round of a store of eight entries or more counted a quarter of them
\* and removed fewer: removals failed
C34_FewerRemoved ==
    /\ RoundRun
    /\ ev.before >= 8
    /\ ev.removed = ev.target
    /\ ev.before - ev.len < ev.removed

\* a round found the iterator yielding no entry and the loop stopped
C34_RemovedNothing ==
    /\ ev.pc = "returned"
    /\ ev.why = "removed nothing"
    /\ ev.len = ev.before
    /\ ev.len > 0

---------------------------------------------------------------------------
(* Properties of the reports to the breaker (SpecPolicy) *)

\* the call c returns in this step
Completes(c) == pc[c] # "done" /\ pc'[c] = "done"

\* the call c was admitted by allow_request() in this step or before it
AdmittedCall(c) == result'[c].ok \/ result'[c].err.kind # "CircuitOpen"

\* C35: a call admitted by allow_request() reports to the breaker once,
\* in the step in which it returns: record_success() if an attempt
\* succeeded, record_failure() otherwise, also when the policy allows no
\* attempt; a failed attempt that is retried reports nothing, and the
\* consecutive-failure count is the number of calls that failed since the
\* last success.
C35_OneReportPerCall ==
    /\ [][\A c \in CallIds :
             (Completes(c) /\ AdmittedCall(c)) =>
                 IF result'[c].ok
                 THEN /\ cb'.failure_count = 0
                      /\ cb'.opened_at = 0
                      /\ cb'.total_failures = cb.total_failures
                 ELSE /\ cb'.failure_count = cb.failure_count + 1
                      /\ cb'.total_failures = cb.total_failures + 1]_vars
    /\ [][(\A c \in CallIds : ~Completes(c)) =>
             /\ cb'.failure_count = cb.failure_count
             /\ cb'.total_failures = cb.total_failures]_vars
    /\ [](cb.failure_count = fail_run)

\* a call with a policy of no attempts was admitted and has returned its
\* error without an invocation of the backend, and the breaker counts one
\* failure
C35_Witness ==
    \E c \in CallIds :
       /\ pc[c] = "done"
       /\ result[c] = Err(MaxRetriesExceeded)
       /\ invocations[c] = 0
       /\ last_reply[c] = None
       /\ cb.total_failures = 1
       /\ cb.failure_count = 1

\* a call failed on its second attempt, and the breaker counts one failure
C35_RetriedThenFailed ==
    \E c \in CallIds :
       /\ pc[c] = "done"
       /\ ~result[c].ok
       /\ attempt[c] = config.max_retries - 1
       /\ invocations[c] = config.max_retries
       /\ cb.total_failures = 1

---------------------------------------------------------------------------
(* Properties of the breaker with reset() (SpecReset) *)

\* no thread is in the middle of a breaker method
Quiescent == \A t \in Threads : tpc[t] \in {"idle", "admitted"}

\* C36: whenever no breaker method is in the middle of its execution, a
\* Closed breaker (opened-at = 0) has a consecutive-failure count below the
\* threshold.
C36_ClosedBelowThreshold ==
    (Quiescent /\ cb.opened_at = 0) => cb.failure_count < cb.threshold

\* the breaker is Closed with its count at the threshold, no method is
\* running, and every thread may start a call
C36_ClosedAtThreshold ==
    /\ Quiescent
    /\ cb.opened_at = 0
    /\ cb.failure_count >= cb.threshold

---------------------------------------------------------------------------
(* Properties of the limiter after a congestion signal (SpecCongestion) *)

\* the i-th caller of wait_if_needed() since the signal starts its request at
\* the slot the code computes from what it read: at once when the delay it
\* read is 0, and at the later of the reservation and its call otherwise
SlotAsComputed(i) ==
    LET w == cg.waits[i] IN
    w.slot = IF w.delay = 0 THEN w.at ELSE Max(w.next, w.at)

\* the reservation the i-th caller reads: the first caller reads the one that
\* stood when the signal came, a later caller the one its predecessor left
ReservationRead(i) ==
    LET w == cg.waits[i] IN
    IF i = 1 THEN w.next = cg.next
    ELSE LET v == cg.waits[i - 1] IN
         w.next = IF v.delay = 0 THEN v.next ELSE v.slot + v.delay

\* C38 as stated: after a congestion signal raises the minimum delay from 0
\* to d > 0, the very next caller of wait_if_needed() starts its request no
\* earlier than d after the signal.
C38_FirstCallerHeldBack ==
    (cg.signalled /\ Len(cg.waits) >= 1) =>
        cg.waits[1].slot >= cg.at + cg.d

\* C38: a congestion signal changes the delay only and leaves the reservation
\* alone, so the first caller after the signal starts at the later of the
\* reservation that stood at the signal and its own call, at once when none
\* was pending; each caller reserves the slot one delay after its own, so the
\* delay holds back the callers from the second one on.
C38_DelayAppliesFromSecondCaller ==
    cg.signalled =>
        \A i \in 1..Len(cg.waits) :
            /\ SlotAsComputed(i)
            /\ ReservationRead(i)
            /\ (i > 1 /\ cg.waits[i - 1].delay > 0) =>
                   cg.waits[i].slot >= cg.waits[i - 1].slot + cg.waits[i - 1].delay

\* the first caller came at the instant of the signal and started at once,
\* and the second caller was held back until the delay after the first
C38_Witness ==
    /\ cg.signalled
    /\ cg.d > 0
    /\ Len(cg.waits) >= 2
    /\ cg.waits[1].at = cg.at
    /\ cg.waits[1].delay = cg.d
    /\ cg.waits[1].slot = cg.at
    /\ cg.waits[2].at < cg.waits[2].slot
    /\ cg.waits[2].slot = cg.waits[1].slot + cg.d

\* a first caller that started before the delay after the signal had passed
C38_FirstCallerAtOnce ==
    /\ cg.signalled
    /\ Len(cg.waits) >= 1
    /\ cg.waits[1].delay = cg.d
    /\ cg.waits[1].slot < cg.at + cg.d

---------------------------------------------------------------------------
(* Properties of the pipeline after a failed translation (SpecPipeline) *)

\* translate_with_chunking has returned an error to an invocation that
\* looked its key up and missed, and the pipeline returns
FailedAfterMiss ==
    /\ pl.pc = "translating"
    /\ pl.opened
    /\ pc[1] = "done"
    /\ ~result[1].ok
    /\ pl'.pc = "returned"

\* an entry is in the store after the step under a key that had none
EntryWritten == DOMAIN cache'.db \ DOMAIN cache.db # {}

\* an invocation begins that opens the cache and finds no entry under the
\* key of its input
CalledWithoutEntry ==
    /\ pl.pc = "idle"
    /\ pl'.pc # "idle"
    /\ pl'.opened
    /\ pl'.key # None
    /\ pl'.key[1] \notin DOMAIN cache.db

\* C39: when the translation of a cache-miss input fails, the pipeline
\* returns the error of the chunk call and the cache is as it was, with no
\* entry under the input's key; an entry appears in the store only when a
\* translation has succeeded, so that a later invocation with the same input
\* finds none and is a miss again: it is sent to the backend.
C39_FailureWritesNoEntry ==
    /\ [][FailedAfterMiss =>
             /\ pl'.out = result[1]
             /\ cache' = cache
             /\ pl.key[1] \notin DOMAIN cache'.db]_vars
    /\ [][EntryWritten => (pl.pc = "translating" /\ pl.opened /\ result[1].ok)]_vars
    /\ [][CalledWithoutEntry =>
             /\ pl'.pc = "translating"
             /\ cache'.db = cache.db
             /\ (~cache.stub => cache'.misses = cache.misses + 1)]_vars

\* C39 witness: the pipeline has returned the error of a failed translation
\* of an input it had looked up and missed, the store holds the entry of
\* another input and none under the key of this one
C39_Witness ==
    /\ pl.pc = "returned"
    /\ ~pl.out.ok
    /\ pl.opened
    /\ ~cache.stub
    /\ cache.misses >= 1
    /\ DOMAIN cache.db # {}
    /\ pl.key[1] \notin DOMAIN cache.db

\* the second invocation of a process is a miss that follows a failed
\* translation: nothing was inserted, the store is empty
C39_MissAgain ==
    /\ pl.pc = "translating"
    /\ pl.opened
    /\ ~cache.stub
    /\ pl.runs = 2
    /\ cache.misses = 2
    /\ cache.inserts = 0
    /\ fail_run = 1
    /\ DOMAIN cache.db = {}

---------------------------------------------------------------------------
(* Properties of the cache entry of a placeholdered text (SpecShare) *)

\* the input of the invocation that has just begun or is under way
IsCurrent(t) == pl'.text = Some(t.id)

\* the step in which a translation is put into the store
EntryStored ==
    /\ pl.pc = "translating"
    /\ pl'.pc = "returned"
    /\ result[1].ok
    /\ pl.opened
    /\ ~cache.stub
    /\ pl.key[1] \in DOMAIN cache'.db

\* the step in which an invocation returns a cache hit
HitReturned ==
    /\ pl.pc = "idle"
    /\ pl'.pc = "returned"
    /\ pl'.out.ok
    /\ pl'.out.val.cache_hit

\* C40: the entry the pipeline stores is the backend's translation of the
\* placeholdered text, placeholders in place, under the key of that text,
\* and not the restored text it returns; a cache hit returns the entry's
\* text restored with the segments extracted from the current input; two
\* inputs with the same placeholdered text and different preserved originals
\* have the same key and different segments, so that they share the entry
\* and each is restored with its own originals.
C40_SharedEntryOwnOriginals ==
    /\ [](\A t1 \in ShareInputs : \A t2 \in ShareInputs : \A cfg \in ShareConfigs :
            (t1.body = t2.body /\ t1.id # t2.id) =>
               /\ cache_key_of(t1, cfg) = cache_key_of(t2, cfg)
               /\ extract_and_preserve_with_config(t1).segments #
                     extract_and_preserve_with_config(t2).segments)
    /\ [][EntryStored =>
             /\ pl.key[1] = make_key(code(pl.language), "en", text[1])
             /\ result[1].val = Translate(text[1])
             /\ cache'.db[pl.key[1]].translated = result[1].val
             /\ pl'.out.val.translated =
                   restore_preserved(result[1].val, pl.segments[1])
             /\ pl'.out.val.translated # cache'.db[pl.key[1]].translated
             /\ \A t \in ShareInputs : \A cfg \in ShareConfigs :
                   (cache_key_of(t, cfg) = pl.key[1]) =>
                      cache_get(cache', cfg, cache_key_of(t, cfg),
                                current_timestamp_secs).entry
                         = Some(cache'.db[pl.key[1]])]_vars
    /\ [][HitReturned =>
             \A t \in ShareInputs :
                IsCurrent(t) =>
                   /\ pl'.key # None
                   /\ pl'.key[1] \in DOMAIN cache.db
                   /\ \E cfg \in ShareConfigs : pl'.key[1] = cache_key_of(t, cfg)
                   /\ pl'.out.val.original = t.id
                   /\ pl'.out.val.translated =
                         restore_preserved(
                            cache.db[pl'.key[1]].translated,
                            extract_and_preserve_with_config(t).segments)]_vars

\* C40 witness: the input "zh_b" was a cache hit on the entry that the input
\* "zh" left in the store, when this process had stored nothing, and was
\* returned that entry's text restored with its own segments
C40_Witness ==
    /\ pl.pc = "returned"
    /\ pl.out.ok
    /\ pl.out.val.cache_hit
    /\ pl.out.val.original = "zh_b"
    /\ cache.inserts = 0
    /\ pl.key[1] \in DOMAIN cache.db
    /\ cache.db[pl.key[1]] = StoredByEarlierRun
    /\ pl.out.val.translated =
          restore_preserved(StoredByEarlierRun.translated, <<"segments", "zh_b">>)

\* the translation of "zh" has just been stored, and a lookup for "zh_b"
\* finds that entry
C40_StoredForBoth ==
    /\ pl.pc = "returned"
    /\ pl.out.ok
    /\ ~pl.out.val.cache_hit
    /\ pl.out.val.original = "zh"
    /\ pl.opened
    /\ ~cache.stub
    /\ pl.key[1] \in DOMAIN cache.db
    /\ cache.db[pl.key[1]].timestamp >= StartSecs
    /\ \E t \in ShareInputs : \E cfg \in ShareConfigs :
          /\ t.id = "zh_b"
          /\ cache_get(cache, cfg, cache_key_of(t, cfg),
                       current_timestamp_secs).entry = Some(cache.db[pl.key[1]])

=============================================================================
